---------------------------- MODULE Spec2Model ----------------------------
(***************************************************************************)
(* Smart valve gateway: the Device Link (serial_manager.py), the Broadcast *)
(* Hub (ws_manager.py), the Coordinator (main.py) and the command          *)
(* operations (api/valve.py).                                              *)
(*                                                                         *)
(* Execution model.  Every coroutine of the gateway runs on one asyncio    *)
(* event loop: a task keeps the loop's thread from one await that really   *)
(* suspends to the next.  `holder` names the task that holds the thread   *)
(* inside a section with no suspension ("none" when the loop is free to    *)
(* pick any ready task).  time.sleep() keeps the thread; asyncio.sleep()   *)
(* and a socket send release it.  The device and the clients are the       *)
(* environment and act at any time.                                        *)
(*                                                                         *)
(* Three configurations are checked:                                       *)
(*   Spec        the device link and the command operations, with no       *)
(*               real-time client connected (every broadcast returns at    *)
(*               ws_manager.py:41);                                        *)
(*   SpecHub     the hub with clients, the publishers being                *)
(*               handle_telemetry and log_operation called with inputs     *)
(*               drawn from small sets;                                    *)
(*   SpecFanout  SpecHub with samples that breach a threshold and clients  *)
(*               that stop reading.                                        *)
(***************************************************************************)
EXTENDS Integers, Sequences, FiniteSets, TLC

\* ------------------------------------------------------------------ bounds
MaxBuf == 2          \* lines the serial input buffer holds
MaxPub == 2          \* broadcasts started while clients are registered
MaxRead == 3         \* lines one command wait reads before its timeout
MaxCalls == 4        \* calls made on a ConnectionManager taken alone
MaxInbox == 2        \* messages a client has when its session still answers

\* ------------------------------------------------------------------- tasks
Handlers == {"h1", "h2"}
Clients == {"c1", "c2"}
Tasks == {"main", "loop"} \cup Handlers \cup Clients
Publishers == {"loop"} \cup Handlers

\* Python's None, where a string is expected.
None == "<None>"

\* ----------------------------------------------------------------- strings
StartsWith(s, p) == Len(s) >= Len(p) /\ SubSeq(s, 1, Len(p)) = p

Contains(s, p) ==
    \E i \in 1..(Len(s) - Len(p) + 1) : SubSeq(s, i, i + Len(p) - 1) = p

IsSpace(c) == c \in {" ", "\t", "\n", "\r"}

RECURSIVE LStrip(_)
LStrip(s) ==
    IF Len(s) > 0 /\ IsSpace(SubSeq(s, 1, 1))
    THEN LStrip(SubSeq(s, 2, Len(s)))
    ELSE s

RECURSIVE RStrip(_)
RStrip(s) ==
    IF Len(s) > 0 /\ IsSpace(SubSeq(s, Len(s), Len(s)))
    THEN RStrip(SubSeq(s, 1, Len(s) - 1))
    ELSE s

\* str.strip()
Strip(s) == LStrip(RStrip(s))

UpperAlpha == "ABCDEFGHIJKLMNOPQRSTUVWXYZ"
LowerAlpha == "abcdefghijklmnopqrstuvwxyz"

\* Each upper-case letter's lower-case one.
LowerOf ==
    [c \in {SubSeq(UpperAlpha, i, i) : i \in 1..26} |->
        LET i == CHOOSE j \in 1..26 : SubSeq(UpperAlpha, j, j) = c
        IN  SubSeq(LowerAlpha, i, i)]

LowerChar(c) == IF c \in DOMAIN LowerOf THEN LowerOf[c] ELSE c

\* Each lower-case letter's upper-case one.
UpperOf ==
    [c \in {SubSeq(LowerAlpha, i, i) : i \in 1..26} |->
        LET i == CHOOSE j \in 1..26 : SubSeq(LowerAlpha, j, j) = c
        IN  SubSeq(UpperAlpha, i, i)]

UpperChar(c) == IF c \in DOMAIN UpperOf THEN UpperOf[c] ELSE c

RECURSIVE Upper(_)
\* str.upper()
Upper(s) ==
    IF Len(s) = 0 THEN ""
    ELSE UpperChar(SubSeq(s, 1, 1)) \o Upper(SubSeq(s, 2, Len(s)))

RECURSIVE Lower(_)
\* str.lower()
Lower(s) ==
    IF Len(s) = 0 THEN ""
    ELSE LowerChar(SubSeq(s, 1, 1)) \o Lower(SubSeq(s, 2, Len(s)))

RECURSIVE ReplaceAll(_, _)
\* str.replace(p, "")
ReplaceAll(s, p) ==
    IF Len(s) = 0 THEN ""
    ELSE IF StartsWith(s, p) THEN ReplaceAll(SubSeq(s, Len(p) + 1, Len(s)), p)
    ELSE SubSeq(s, 1, 1) \o ReplaceAll(SubSeq(s, 2, Len(s)), p)

\* not x, for x a string or None
Falsy(x) == x = None \/ x = ""

\* ------------------------------------------------------------ device lines
EchoPrefix == "COMMAND_RECEIVED:"
TelemetryPrefix == "TELEMETRY:"

\* What readline() returns: the text and its line terminator.
EchoLine == "COMMAND_RECEIVED:OPEN\r\n"
OpenedLine == "VALVE_OPENED\r\n"
BlankLine == "\r\n"
SafePayload == "{\"t\":5,\"valve\":\"OPEN\",\"p1\":3,\"p2\":3,\"c_src\":150,\"c_dst\":250,\"em\":0}"
UnsafePayload == "{\"t\":6,\"valve\":\"OPEN\",\"p1\":7,\"p2\":3,\"c_src\":150,\"c_dst\":501,\"em\":1}"
\* A payload that is no JSON, and one that is JSON but for p1 has none of the
\* fields of a telemetry record.
InvalidPayload == "{invalid json}"
PartialPayload == "{\"p1\":7}"
\* A payload that is JSON and no object: the string "t".
StringPayload == "\"t\""
\* A record without a timestamp, and the same record with the text of the
\* prefix inside its valve field.
UntimedPayload == "{\"valve\":\"OPEN\",\"p1\":3,\"p2\":3,\"c_src\":150,\"c_dst\":250,\"em\":0}"
TaggedPayload ==
    "{\"valve\":\"TELEMETRY:OPEN\",\"p1\":3,\"p2\":3,\"c_src\":150,\"c_dst\":250,\"em\":0}"
SafeLine == TelemetryPrefix \o SafePayload \o "\r\n"
UnsafeLine == TelemetryPrefix \o UnsafePayload \o "\r\n"
InvalidLine == TelemetryPrefix \o InvalidPayload \o "\r\n"
PartialLine == TelemetryPrefix \o PartialPayload \o "\r\n"
StringLine == TelemetryPrefix \o StringPayload \o "\r\n"
UntimedLine == TelemetryPrefix \o UntimedPayload \o "\r\n"
TaggedLine == TelemetryPrefix \o TaggedPayload \o "\r\n"

DeviceLines == {EchoLine, OpenedLine, BlankLine, SafeLine}

\* What json.loads gave: for a dict the keys present and their values; for a
\* str, `keys` holds what `in` finds in it.
TelemetryKeys == {"t", "valve", "p1", "p2", "c_src", "c_dst", "em"}
SafeSample ==
    [kind |-> "dict", keys |-> TelemetryKeys, t |-> 5, valve |-> "OPEN", p1 |-> 3, p2 |-> 3,
     c_src |-> 150, c_dst |-> 250, em |-> 0]
UnsafeSample ==
    [kind |-> "dict", keys |-> TelemetryKeys, t |-> 6, valve |-> "OPEN", p1 |-> 7, p2 |-> 3,
     c_src |-> 150, c_dst |-> 501, em |-> 1]
NoSample ==
    [kind |-> "dict", keys |-> {}, t |-> 0, valve |-> "", p1 |-> 0, p2 |-> 0,
     c_src |-> 0, c_dst |-> 0, em |-> 0]
PartialSample == [NoSample EXCEPT !.keys = {"p1"}, !.p1 = 7]
StringSample == [NoSample EXCEPT !.kind = "str", !.keys = {"t"}]
UntimedSample == [SafeSample EXCEPT !.keys = TelemetryKeys \ {"t"}, !.t = 0]
TaggedSample == [UntimedSample EXCEPT !.valve = "TELEMETRY:OPEN"]
Samples == {SafeSample, UnsafeSample}

\* dict.get(k, default)
Get(d, k, default) == IF k \in d.keys THEN d[k] ELSE default

VARIABLES
    \* the event loop
    pc,                 \* each task's position
    holder,             \* the task holding the loop's thread, or "none"
    \* SerialManager and its transport
    serial_conn,        \* "None" or "open"
    plugged,            \* the device is attached and its port works
    rx,                 \* the transport's input buffer: lines not yet read
    running,            \* SerialManager.running, the read loop's flag
    \* send_command's frame, per calling task
    command,            \* the command of the task's current send_command
    lines_received,     \* send_command's lines_received
    raw_read,           \* every line the call got from readline()
    written,            \* the bytes the call wrote to the transport
    sc_ret,             \* where the caller continues
    response,           \* what the call returned
    sc_how,             \* how the call ended
    wrote,              \* writes to the transport by the task's operation
    emergency_mode,     \* the device's emergency flag, which a RESET_EMERGENCY it is sent clears
    \* a command operation, per handler task
    op,                 \* the operation being served
    outcome,            \* the response or error the operation ends with
    op_logged,          \* the (operation, result) pairs the operation gave to log_operation
    link_was,           \* what is_connected was when the operation began
    \* ConnectionManager
    active_connections,
    sock,               \* each client's socket: new, open, broken, stalled
    authenticated,      \* websocket_telemetry's local flag
    inbox,              \* what each client has received, in order
    unicast,            \* the personal message a client task is sending
    u_ret,              \* where the client task continues after it
    \* broadcast's frame, per publishing task
    message,            \* the message being broadcast
    connections,        \* broadcast's `connections`: the snapshot
    todo,               \* the snapshot's members not yet iterated
    current,            \* the member whose send is awaited
    disconnected,       \* broadcast's `disconnected`
    attempted,          \* the snapshot's members a send was started for
    b_ret,              \* where the caller continues
    n_pub,              \* broadcasts that took a snapshot so far
    sending,            \* per socket, the tasks with a send in progress
    \* handle_telemetry's frame (read-loop task)
    sample,             \* telemetry_data
    ht_ret,             \* where the read loop continues
    ht_rows,            \* telemetry records the call committed
    ht_alerts,          \* the alert records the call committed, in order
    ht_alert_pub,       \* the alert events the call gave to broadcast_alert
    ht_tel_pub,         \* broadcast_telemetry calls of the call
    latest_telemetry,   \* the sample of the stored record with the greatest ts_utc
    \* the rules engine, called on its own
    telemetry,          \* the sample it is given
    validated,          \* what validate_telemetry returned
    can_open,           \* what can_open_valve returned
    \* the ConnectionManager, called on its own
    calls,              \* the calls made so far, in order
    count,              \* what get_connection_count returned last
    \* the device simulator, run on its own (its emergency flag is emergency_mode)
    valve_state,        \* ArduinoSimulator.valve_state
    sim_command,        \* the command line process_command was given last
    sim_response,       \* what it returned
    sim_telemetry,      \* what generate_telemetry returned last
    \* websocket_telemetry's session loop, per client
    ws_message,         \* what the last wait for a message gave
    \* the transports serial.Serial opened
    orphaned            \* one is open and serial_conn no longer refers to it

loopVars == <<pc, holder>>
linkVars == <<serial_conn, plugged, rx, running>>
scVars ==
    <<command, lines_received, raw_read, written, sc_ret, response, sc_how, wrote,
      emergency_mode>>
opVars == <<op, outcome, op_logged, link_was>>
hubVars == <<active_connections, sock, authenticated, inbox, unicast, u_ret>>
bcVars == <<message, connections, todo, current, disconnected, attempted, b_ret, n_pub, sending>>
htVars == <<sample, ht_ret, ht_rows, ht_alerts, ht_alert_pub, ht_tel_pub, latest_telemetry>>
rulesVars == <<telemetry, validated, can_open>>
managerVars == <<calls, count>>
simVars == <<valve_state, sim_command, sim_response, sim_telemetry>>
sessionVars == <<ws_message>>
handleVars == <<orphaned>>
benchVars == <<rulesVars, managerVars, simVars, sessionVars>>
unitVars == <<benchVars, handleVars>>
vars == <<loopVars, linkVars, scVars, opVars, hubVars, bcVars, htVars, unitVars>>

LinkTasks == {"main", "loop"} \cup Handlers

\* A task may take a step when the loop's thread is free or its own.
CanRun(t) == holder \in {"none", t}

\* ------------------------------------------------------------ rules engine
max_pressure == 6
critical_concentration == 500

min_src_concentration == 10
max_dst_concentration == 400

\* A reading at its limit counts as over it.
ExceedsOrEquals(x, limit) == x >= limit

\* `if p1 > self.max_pressure:` and the three checks like it.
Exceeds(x, limit) == x > limit

\* RulesEngine.validate_telemetry: the violations, in the order of the checks.
ValidateTelemetry(d) ==
    LET p1 == Get(d, "p1", 0)
        p2 == Get(d, "p2", 0)
        c_src == Get(d, "c_src", 0)
        c_dst == Get(d, "c_dst", 0)
    IN  (IF Exceeds(p1, max_pressure)
         THEN << <<"Pressure sensor 1 exceeds limit", p1, max_pressure>> >> ELSE <<>>)
        \o (IF Exceeds(p2, max_pressure)
         THEN << <<"Pressure sensor 2 exceeds limit", p2, max_pressure>> >> ELSE <<>>)
        \o (IF Exceeds(c_src, critical_concentration)
         THEN << <<"Source concentration critical", c_src, critical_concentration>> >> ELSE <<>>)
        \o (IF Exceeds(c_dst, critical_concentration)
         THEN << <<"Destination concentration critical", c_dst, critical_concentration>> >> ELSE <<>>)

\* RulesEngine.validate_telemetry: `return is_safe, violations`
validate_telemetry(d) ==
    [called |-> TRUE, is_safe |-> Len(ValidateTelemetry(d)) = 0,
     violations |-> ValidateTelemetry(d)]

\* A reason can_open_valve returns: its text and the values it names.
Reason(text, value, limit, violations) ==
    [text |-> text, value |-> value, limit |-> limit, violations |-> violations]

\* The emergency flag is not looked at.
EmergencyFlagIgnored(d) == FALSE

\* `if telemetry.get("em", 0) == 1:`
EmergencyFlagSet(d) == Get(d, "em", 0) = 1

\* A source concentration at the minimum is too low as well.
SourceTooLowOrEqual(c_src) == c_src <= min_src_concentration

\* `if c_src < self.min_src_concentration:`
SourceTooLow(c_src) == c_src < min_src_concentration

\* RulesEngine.can_open_valve: `return can_open, reason`; the first check
\* that fails returns.
can_open_valve(d) ==
    LET c_src == Get(d, "c_src", 0)
        c_dst == Get(d, "c_dst", 0)
        checked == validate_telemetry(d)
    IN  IF EmergencyFlagSet(d)
        THEN [called |-> TRUE, can_open |-> FALSE,
              reason |-> Reason("System in emergency mode", 0, 0, <<>>)]
        ELSE IF ~checked.is_safe
        THEN [called |-> TRUE, can_open |-> FALSE,
              reason |-> Reason("Safety violations: ", 0, 0, checked.violations)]
        ELSE IF SourceTooLow(c_src)
        THEN [called |-> TRUE, can_open |-> FALSE,
              reason |-> Reason("Source concentration too low", c_src,
                                min_src_concentration, <<>>)]
        ELSE IF c_dst > max_dst_concentration
        THEN [called |-> TRUE, can_open |-> FALSE,
              reason |-> Reason("Destination concentration too high", c_dst,
                                max_dst_concentration, <<>>)]
        ELSE [called |-> TRUE, can_open |-> TRUE,
              reason |-> Reason("All checks passed", 0, 0, <<>>)]

\* The engine has not been called.
NotValidated == [called |-> FALSE, is_safe |-> FALSE, violations |-> <<>>]
NotChecked == [called |-> FALSE, can_open |-> FALSE, reason |-> Reason("", 0, 0, <<>>)]

\* ----------------------------------------------------------- broadcast hub
NoMessage ==
    [type |-> "", id |-> 0, sample |-> NoSample, violations |-> <<>>,
     command |-> "", result |-> ""]
TelemetryMessage(d) == [NoMessage EXCEPT !.type = "telemetry", !.sample = d]
AlertMessage(d, v) == [NoMessage EXCEPT !.type = "alert", !.sample = d, !.violations = v]
ValveEventMessage(cmd, res) ==
    [NoMessage EXCEPT !.type = "valve_event", !.command = cmd, !.result = res]
TypedEvents == {"telemetry", "alert", "valve_event"}

\* ConnectionManager.get_connection_count
get_connection_count == Cardinality(active_connections)

\* get_connection_count has not been called.
NotCounted == [called |-> FALSE, value |-> 0]

\* The loop takes its next member from the registered set as it is now.
SweepStepLive(t, rest, sent) ==
    LET live == active_connections \ attempted[t] IN
    IF live = {}
    THEN /\ todo' = [todo EXCEPT ![t] = {}]
         /\ current' = [current EXCEPT ![t] = "none"]
         /\ pc' = [pc EXCEPT ![t] = "bc_sweep"]
         /\ holder' = t
         /\ sending' = sent
         /\ UNCHANGED attempted
    ELSE \E c \in live :
         /\ todo' = [todo EXCEPT ![t] = live \ {c}]
         /\ current' = [current EXCEPT ![t] = c]
         /\ attempted' = [attempted EXCEPT ![t] = @ \cup {c}]
         /\ sending' = [sent EXCEPT ![c] = Append(@, t)]
         /\ pc' = [pc EXCEPT ![t] = "bc_send"]
         /\ holder' = "none"

\* `for connection in connections`: the loop takes the next member of
\* `rest`, in the set's iteration order (unspecified), and starts its send,
\* which suspends the task; with no member left the loop is over.  `sent`
\* is `sending` without the send that has just ended.
SweepStep(t, rest, sent) ==
    IF rest = {}
    THEN /\ todo' = [todo EXCEPT ![t] = {}]
         /\ current' = [current EXCEPT ![t] = "none"]
         /\ pc' = [pc EXCEPT ![t] = "bc_sweep"]
         /\ holder' = t
         /\ sending' = sent
         /\ UNCHANGED attempted
    ELSE \E c \in rest :
         /\ todo' = [todo EXCEPT ![t] = rest \ {c}]
         /\ current' = [current EXCEPT ![t] = c]
         /\ attempted' = [attempted EXCEPT ![t] = @ \cup {c}]
         /\ sending' = [sent EXCEPT ![c] = Append(@, t)]
         /\ pc' = [pc EXCEPT ![t] = "bc_send"]
         /\ holder' = "none"

\* ConnectionManager.broadcast up to its first send: nothing to do without
\* connections, else the snapshot is taken under the lock and the loop
\* starts.
BroadcastCall(t, m, cont) ==
    IF active_connections = {}
    THEN /\ pc' = [pc EXCEPT ![t] = cont]
         /\ holder' = t
         /\ UNCHANGED bcVars
    ELSE /\ n_pub' = n_pub + 1
         /\ message' = [message EXCEPT ![t] = [m EXCEPT !.id = n_pub + 1]]
         /\ connections' = [connections EXCEPT ![t] = active_connections]
         /\ disconnected' = [disconnected EXCEPT ![t] = {}]
         /\ b_ret' = [b_ret EXCEPT ![t] = cont]
         /\ \E c \in active_connections :
              /\ todo' = [todo EXCEPT ![t] = active_connections \ {c}]
              /\ current' = [current EXCEPT ![t] = c]
              /\ attempted' = [attempted EXCEPT ![t] = {c}]
              /\ sending' = [sending EXCEPT ![c] = Append(@, t)]
              /\ pc' = [pc EXCEPT ![t] = "bc_send"]
              /\ holder' = "none"

\* The loop ends at the first send that raises.
AbortSweep(rest) == {}

\* The members still to iterate after a send raised: the except clauses
\* record the connection and the loop goes on.
AfterFailedSend(rest) == rest

\* The sends on one socket end in the order they were started.
Sent(c) == [sending EXCEPT ![c] = Tail(@)]

\* `await connection.send_json(message)` ends: the client has the message, or
\* the send raised; the loop goes on.  A send to a stalled client does not
\* end.
SendComplete(t) ==
    /\ pc[t] = "bc_send"
    /\ CanRun(t)
    /\ sock[current[t]] # "stalled"
    /\ Head(sending[current[t]]) = t
    /\ IF sock[current[t]] = "open"
       THEN /\ inbox' = [inbox EXCEPT ![current[t]] = Append(@, message[t])]
            /\ UNCHANGED disconnected
            /\ SweepStep(t, todo[t], Sent(current[t]))
       ELSE /\ disconnected' = [disconnected EXCEPT ![t] = @ \cup {current[t]}]
            /\ UNCHANGED inbox
            /\ SweepStep(t, AfterFailedSend(todo[t]), Sent(current[t]))
    /\ UNCHANGED <<message, connections, b_ret, n_pub>>
    /\ UNCHANGED <<active_connections, sock, authenticated, unicast, u_ret>>
    /\ UNCHANGED <<linkVars, scVars, opVars, htVars>>
    /\ UNCHANGED unitVars

\* Nothing is removed.
KeepAll(registered, failed) == registered

\* `self.active_connections -= disconnected`
RemoveDisconnected(registered, failed) == registered \ failed

\* The sweep is over: the failed connections are removed under the lock and
\* broadcast returns to its caller; its frame is gone.
SweepFinish(t) ==
    /\ pc[t] = "bc_sweep"
    /\ CanRun(t)
    /\ todo[t] = {}
    /\ active_connections' =
          IF disconnected[t] # {}
          THEN RemoveDisconnected(active_connections, disconnected[t])
          ELSE active_connections
    /\ pc' = [pc EXCEPT ![t] = b_ret[t]]
    /\ holder' = t
    /\ message' = [message EXCEPT ![t] = NoMessage]
    /\ connections' = [connections EXCEPT ![t] = {}]
    /\ disconnected' = [disconnected EXCEPT ![t] = {}]
    /\ attempted' = [attempted EXCEPT ![t] = {}]
    /\ b_ret' = [b_ret EXCEPT ![t] = ""]
    /\ UNCHANGED <<todo, current, n_pub, sending>>
    /\ UNCHANGED <<sock, authenticated, inbox, unicast, u_ret>>
    /\ UNCHANGED <<linkVars, scVars, opVars, htVars>>
    /\ UNCHANGED unitVars

\* ------------------------------------------------------------- coordinator
\* AlertPriority.CRITICAL, a member of the enumeration.
AlertPriorityCritical == [is_enum |-> TRUE, value |-> "CRITICAL"]

\* AlertService.create_alert: the record it commits; `priority.value` is read.
create_alert(alert_type, text, priority, alert_metadata) ==
    [alert_type |-> alert_type, message |-> text, priority |-> priority.value,
     acknowledged |-> FALSE, alert_metadata |-> alert_metadata]

\* AlertService.create_emergency_alert; the message is
\* f"EMERGENCY: {violation_type} - {violation_details}".
create_emergency_alert(violation_type, violation_details) ==
    create_alert("EMERGENCY",
                 <<"EMERGENCY: ", violation_type, " - ", violation_details>>,
                 AlertPriorityCritical,
                 [violation_type |-> violation_type, details |-> violation_details])

\* `for violation in violations: ...create_emergency_alert(...)`
AlertsFor(violations) ==
    [i \in 1..Len(violations) |->
        create_emergency_alert("SAFETY_VIOLATION", violations[i])]

\* int(time.time())
Now == 9

\* `order_by(desc(Telemetry.ts_utc)).first()` once a record of `data` has been
\* committed; ts_utc is telemetry_data.get("t", int(time.time())).
Latest(stored, data) ==
    IF Get(data, "t", Now) >= Get(stored, "t", Now) THEN data ELSE stored

\* The exception reaches read_loop's `except Exception`.
FailureReachesLoop(cont) == "loop_error_delay"

\* handle_telemetry's `except Exception as e: logger.error(...)`: the failure
\* is logged and the call returns; its caller goes on where it would after a
\* call without failure.
ContainFailure(cont) == cont

\* handle_telemetry up to its first broadcast: the record is committed, the
\* sample evaluated, one alert committed per violation.  An exception of the
\* storage collaborator, or of `telemetry_data.get` on what is no dict, leaves
\* to the outer `except`, which logs it and returns.
HandleTelemetryCall(t, data, cont) ==
    /\ sample' = data
    /\ ht_ret' = cont
    /\ \E committed \in (IF data.kind = "dict" THEN BOOLEAN ELSE {FALSE}) :
         IF ~committed
         THEN /\ pc' = [pc EXCEPT ![t] = ContainFailure(cont)]
              /\ holder' = t
              /\ ht_rows' = 0
              /\ UNCHANGED latest_telemetry
              /\ ht_alerts' = <<>>
              /\ ht_alert_pub' = <<>>
              /\ ht_tel_pub' = 0
              /\ UNCHANGED bcVars
         ELSE /\ ht_rows' = 1
              /\ latest_telemetry' = Latest(latest_telemetry, data)
              /\ LET violations == ValidateTelemetry(data) IN
                 IF violations = <<>>
                 THEN /\ BroadcastCall(t, TelemetryMessage(data), cont)
                      /\ ht_alerts' = <<>>
                      /\ ht_alert_pub' = <<>>
                      /\ ht_tel_pub' = 1
                 ELSE \E created \in 0..Len(violations) :
                      /\ ht_alerts' = AlertsFor(SubSeq(violations, 1, created))
                      /\ ht_tel_pub' = 0
                      /\ IF created < Len(violations)
                         THEN /\ pc' = [pc EXCEPT ![t] = ContainFailure(cont)]
                              /\ holder' = t
                              /\ ht_alert_pub' = <<>>
                              /\ UNCHANGED bcVars
                         ELSE /\ BroadcastCall(t, AlertMessage(data, violations), "ht_telemetry")
                              /\ ht_alert_pub' = <<AlertMessage(data, violations)>>

\* handle_telemetry after broadcast_alert returned: broadcast_telemetry.
HtTelemetry(t) ==
    /\ pc[t] = "ht_telemetry"
    /\ CanRun(t)
    /\ BroadcastCall(t, TelemetryMessage(sample), ht_ret)
    /\ ht_tel_pub' = ht_tel_pub + 1
    /\ UNCHANGED <<sample, ht_ret, ht_rows, ht_alerts, ht_alert_pub, latest_telemetry>>
    /\ UNCHANGED <<linkVars, scVars, opVars, hubVars>>
    /\ UNCHANGED unitVars

\* log_operation: the ValveOperation is committed and the valve event
\* broadcast.
LogOperationCall(t, cmd, res, cont) ==
    /\ op_logged' = [op_logged EXCEPT ![t] = Append(@, [operation |-> cmd, result |-> res])]
    /\ BroadcastCall(t, ValveEventMessage(cmd, res), cont)

\* ------------------------------------------------------------- device link
\* SerialManager.is_connected
is_connected == serial_conn # "None"

\* The wait suspends the task, as `await asyncio.sleep(0.05)` would.
PollSleepYields(t) == "none"

\* time.sleep(0.05) in send_command's wait: the thread stays with the caller.
PollSleep(t) == t

\* send_command returns `val` to its caller, which goes on without suspending.
ScReturn(t, val, how, cont) ==
    /\ response' = [response EXCEPT ![t] = val]
    /\ sc_how' = [sc_how EXCEPT ![t] = how]
    /\ pc' = [pc EXCEPT ![t] = cont]
    /\ holder' = t

\* The bytes send_command writes for a command.
CmdLine(cmd) == cmd \o "\n"

\* The device's emergency flag after it is sent a command: RESET_EMERGENCY
\* clears it, no other command touches it.
DeviceReceives(cmd, em) == IF cmd = "RESET_EMERGENCY" THEN FALSE ELSE em

\* send_command up to its wait: refused when not connected, else the command
\* line is written.  `base` is the caller's count of writes so far.
SendCommandCall(t, cmd, base, cont) ==
    /\ command' = [command EXCEPT ![t] = cmd]
    /\ lines_received' = [lines_received EXCEPT ![t] = <<>>]
    /\ raw_read' = [raw_read EXCEPT ![t] = <<>>]
    /\ sc_ret' = [sc_ret EXCEPT ![t] = cont]
    /\ IF ~is_connected
       THEN /\ ScReturn(t, None, "not_connected", cont)
            /\ wrote' = [wrote EXCEPT ![t] = base]
            /\ UNCHANGED emergency_mode
            /\ written' = [written EXCEPT ![t] = ""]
       ELSE IF plugged
       THEN /\ wrote' = [wrote EXCEPT ![t] = base + 1]
            /\ emergency_mode' = DeviceReceives(cmd, emergency_mode)
            /\ written' = [written EXCEPT ![t] = CmdLine(cmd)]
            /\ response' = [response EXCEPT ![t] = None]
            /\ sc_how' = [sc_how EXCEPT ![t] = "waiting"]
            /\ pc' = [pc EXCEPT ![t] = "sc_poll"]
            /\ holder' = t
       ELSE /\ ScReturn(t, None, "raised", cont)
            /\ wrote' = [wrote EXCEPT ![t] = base]
            /\ UNCHANGED emergency_mode
            /\ written' = [written EXCEPT ![t] = ""]

\* The caller has used send_command's result: the frame is gone.
ScClear(t) ==
    /\ command' = [command EXCEPT ![t] = ""]
    /\ lines_received' = [lines_received EXCEPT ![t] = <<>>]
    /\ raw_read' = [raw_read EXCEPT ![t] = <<>>]
    /\ written' = [written EXCEPT ![t] = ""]
    /\ sc_ret' = [sc_ret EXCEPT ![t] = ""]
    /\ response' = [response EXCEPT ![t] = None]
    /\ sc_how' = [sc_how EXCEPT ![t] = "idle"]

\* No line is taken for an echo.
IsEchoNever(resp) == FALSE

\* Whether send_command's wait goes past a line: only the echo is skipped.
IsEcho(resp) == StartsWith(resp, EchoPrefix)

\* One turn of send_command's wait with a line in the buffer: the line is
\* read and stripped; a blank one is dropped, an echo kept and the wait goes
\* on, any other line returned.
ScRead(t) ==
    /\ pc[t] = "sc_poll"
    /\ CanRun(t)
    /\ plugged
    /\ rx # <<>>
    /\ Len(raw_read[t]) < MaxRead
    /\ LET resp == Strip(Head(rx)) IN
       /\ rx' = Tail(rx)
       /\ raw_read' = [raw_read EXCEPT ![t] = Append(@, Head(rx))]
       /\ lines_received' =
             [lines_received EXCEPT ![t] = IF resp # "" THEN Append(@, resp) ELSE @]
       /\ IF resp # "" /\ ~IsEcho(resp)
          THEN ScReturn(t, resp, "line", sc_ret[t])
          ELSE /\ holder' = PollSleep(t)
               /\ UNCHANGED <<pc, response, sc_how>>
    /\ UNCHANGED <<serial_conn, plugged, running>>
    /\ UNCHANGED <<command, written, sc_ret, wrote, emergency_mode>>
    /\ UNCHANGED <<opVars, hubVars, bcVars, htVars>>
    /\ UNCHANGED unitVars

\* One turn of the wait with nothing in the buffer.
ScIdle(t) ==
    /\ pc[t] = "sc_poll"
    /\ CanRun(t)
    /\ plugged
    /\ rx = <<>>
    /\ holder' = PollSleep(t)
    /\ UNCHANGED <<pc, linkVars, scVars, opVars, hubVars, bcVars, htVars>>
    /\ UNCHANGED unitVars

\* The transport raises inside the wait: caught, None returned.
ScRaise(t) ==
    /\ pc[t] = "sc_poll"
    /\ CanRun(t)
    /\ ~plugged
    /\ ScReturn(t, None, "raised", sc_ret[t])
    /\ UNCHANGED <<linkVars, command, lines_received, raw_read, written, sc_ret, wrote, emergency_mode>>
    /\ UNCHANGED <<opVars, hubVars, bcVars, htVars>>
    /\ UNCHANGED unitVars

\* The timeout returns None whatever was received.
AtTimeoutNone(lines) == None

\* What send_command returns when the timeout ends its wait.
AtTimeout(lines) == IF lines # <<>> THEN lines[Len(lines)] ELSE None

\* The timeout ends the wait: the last line kept, or None.
ScTimeout(t) ==
    /\ pc[t] = "sc_poll"
    /\ CanRun(t)
    /\ ScReturn(t, AtTimeout(lines_received[t]), "timeout", sc_ret[t])
    /\ UNCHANGED <<linkVars, command, lines_received, raw_read, written, sc_ret, wrote, emergency_mode>>
    /\ UNCHANGED <<opVars, hubVars, bcVars, htVars>>
    /\ UNCHANGED unitVars

\* json.loads on the payloads the device sends; anything else does not parse.
JsonLoads(str) ==
    IF str = SafePayload THEN [ok |-> TRUE, data |-> SafeSample]
    ELSE IF str = UnsafePayload THEN [ok |-> TRUE, data |-> UnsafeSample]
    ELSE IF str = PartialPayload THEN [ok |-> TRUE, data |-> PartialSample]
    ELSE IF str = StringPayload THEN [ok |-> TRUE, data |-> StringSample]
    ELSE IF str = UntimedPayload THEN [ok |-> TRUE, data |-> UntimedSample]
    ELSE IF str = TaggedPayload THEN [ok |-> TRUE, data |-> TaggedSample]
    ELSE [ok |-> FALSE, data |-> NoSample]

\* SerialManager.parse_telemetry
parse_telemetry(line) ==
    IF ~StartsWith(line, TelemetryPrefix)
    THEN [ok |-> FALSE, data |-> NoSample]
    ELSE LET loaded == JsonLoads(Strip(ReplaceAll(line, TelemetryPrefix))) IN
         IF ~loaded.ok THEN loaded
         ELSE IF "t" \in loaded.data.keys THEN loaded
         ELSE [ok |-> TRUE,
               data |-> [loaded.data EXCEPT !.keys = @ \cup {"t"}, !.t = Now]]

\* connect returns to its caller: the lifespan goes on to start the read loop
\* and serve, the read loop goes on to read or, on failure, sleeps one
\* reconnect interval.
ConnectReturn(t, ok) ==
    IF t = "main"
    THEN /\ pc' = [pc EXCEPT !["main"] = "serving", !["loop"] = "loop_new"]
         /\ holder' = "none"
    ELSE IF ok
    THEN /\ pc' = [pc EXCEPT ![t] = "loop_read"]
         /\ holder' = t
    ELSE /\ pc' = [pc EXCEPT ![t] = "loop_top"]
         /\ holder' = "none"

\* connect as a coroutine whose two-second wait suspends it, the read loop
\* having been started before the startup connect is awaited.
ConnectCallAwaited(t) ==
    /\ IF plugged
       THEN /\ serial_conn' = "open"
            /\ pc' = [pc EXCEPT ![t] = "conn_flush",
                                !["loop"] = IF t = "main" THEN "loop_new" ELSE "conn_flush"]
            /\ holder' = "none"
       ELSE /\ serial_conn' = "None"
            /\ ConnectReturn(t, FALSE)
    /\ orphaned' = (orphaned \/ serial_conn = "open")
    /\ UNCHANGED <<plugged, rx, running>>
    /\ UNCHANGED <<scVars, opVars, hubVars, bcVars, htVars>>

\* connect up to its two-second sleep: the port is opened, or opening raises
\* and connect reports failure.
ConnectCall(t) ==
    /\ IF plugged
       THEN /\ serial_conn' = "open"
            /\ pc' = [pc EXCEPT ![t] = "conn_flush"]
            /\ holder' = t
       ELSE /\ serial_conn' = "None"
            /\ ConnectReturn(t, FALSE)
    /\ orphaned' = (orphaned \/ serial_conn = "open")
    /\ UNCHANGED <<plugged, rx, running>>
    /\ UNCHANGED <<scVars, opVars, hubVars, bcVars, htVars>>

\* The lifespan's startup connect.
StartupConnect ==
    /\ pc["main"] = "startup"
    /\ CanRun("main")
    /\ ConnectCall("main")
    /\ UNCHANGED benchVars

\* connect's except clauses set serial_conn to None and call no close(): the
\* transport that was opened stays open until the interpreter finalizes the
\* object, at once or later.
ClearedUnclosed(was) == {was, TRUE}

\* connect after the sleep: the input buffer is flushed and PING sent, or the
\* flush raises on a dead port.
ConnectFlush(t) ==
    /\ pc[t] = "conn_flush"
    /\ CanRun(t)
    /\ IF plugged
       THEN /\ rx' = <<>>
            /\ SendCommandCall(t, "PING", 0, "conn_after_ping")
            /\ UNCHANGED <<serial_conn, orphaned>>
       ELSE /\ serial_conn' = "None"
            /\ orphaned' \in ClearedUnclosed(orphaned)
            /\ ConnectReturn(t, FALSE)
            /\ UNCHANGED <<rx, scVars>>
    /\ UNCHANGED <<plugged, running>>
    /\ UNCHANGED <<opVars, hubVars, bcVars, htVars>>
    /\ UNCHANGED benchVars

\* connect after PING's reply, whatever it was: TEST_MODE_ON is sent.
ConnectAfterPing(t) ==
    /\ pc[t] = "conn_after_ping"
    /\ CanRun(t)
    /\ SendCommandCall(t, "TEST_MODE_ON", wrote[t], "conn_after_tm")
    /\ UNCHANGED <<linkVars, opVars, hubVars, bcVars, htVars>>
    /\ UNCHANGED unitVars

\* connect after TEST_MODE_ON's reply: RESET_EMERGENCY is sent.
ConnectAfterTestMode(t) ==
    /\ pc[t] = "conn_after_tm"
    /\ CanRun(t)
    /\ SendCommandCall(t, "RESET_EMERGENCY", wrote[t], "conn_after_reset")
    /\ UNCHANGED <<linkVars, opVars, hubVars, bcVars, htVars>>
    /\ UNCHANGED unitVars

\* connect reports success only when the last command was answered.
ConnectResultStrict(reply) == ~Falsy(reply)

\* `return True  # Still consider connected`, whatever the replies were.
ConnectResult(reply) == TRUE

\* connect after RESET_EMERGENCY's reply: it reports success.
ConnectDone(t) ==
    /\ pc[t] = "conn_after_reset"
    /\ CanRun(t)
    /\ ConnectReturn(t, ConnectResult(response[t]))
    /\ ScClear(t)
    /\ wrote' = [wrote EXCEPT ![t] = 0]
    /\ UNCHANGED emergency_mode
    /\ UNCHANGED <<linkVars, opVars, hubVars, bcVars, htVars>>
    /\ UNCHANGED unitVars

\* The first step of the read_loop task: `self.running = True`.
LoopStart ==
    /\ pc["loop"] = "loop_new"
    /\ CanRun("loop")
    /\ running' = TRUE
    /\ pc' = [pc EXCEPT !["loop"] = "loop_top"]
    /\ holder' = "loop"
    /\ UNCHANGED <<serial_conn, plugged, rx>>
    /\ UNCHANGED <<scVars, opVars, hubVars, bcVars, htVars>>
    /\ UNCHANGED unitVars

\* `while self.running:` is false: the loop ends.
LoopExit ==
    /\ pc["loop"] = "loop_top"
    /\ CanRun("loop")
    /\ ~running
    /\ pc' = [pc EXCEPT !["loop"] = "loop_done"]
    /\ holder' = "none"
    /\ UNCHANGED <<linkVars, scVars, opVars, hubVars, bcVars, htVars>>
    /\ UNCHANGED unitVars

\* read_loop, not connected: it tries to connect.
LoopReconnect ==
    /\ pc["loop"] = "loop_top"
    /\ CanRun("loop")
    /\ running
    /\ ~is_connected
    /\ ConnectCall("loop")
    /\ UNCHANGED benchVars

\* read_loop's read section.  in_waiting raises on a dead port: either a
\* SerialException (disconnect and sleep one reconnect interval) or, where
\* the platform's error is not wrapped, another exception (`except Exception`:
\* sleep one second, nothing else).  An empty buffer: the idle delay.  A blank line: `continue`
\* with no await.  A telemetry line that parses: the callback is awaited.
\* Any other line is logged.
ReadSection(t) ==
    IF ~plugged
    THEN \/ /\ serial_conn' = "None"
            /\ pc' = [pc EXCEPT ![t] = "loop_top"]
            /\ holder' = "none"
            /\ UNCHANGED <<plugged, rx, running, bcVars, htVars>>
         \/ /\ pc' = [pc EXCEPT ![t] = "loop_error_delay"]
            /\ holder' = "none"
            /\ UNCHANGED <<serial_conn, plugged, rx, running, bcVars, htVars>>
    ELSE IF rx = <<>>
    THEN /\ pc' = [pc EXCEPT ![t] = "loop_top"]
         /\ holder' = "none"
         /\ UNCHANGED <<linkVars, bcVars, htVars>>
    ELSE /\ rx' = Tail(rx)
         /\ UNCHANGED <<serial_conn, plugged, running>>
         /\ LET line == Strip(Head(rx))
                telemetry_data == parse_telemetry(line)
            IN
            IF line = ""
            THEN /\ pc' = [pc EXCEPT ![t] = "loop_top"]
                 /\ holder' = t
                 /\ UNCHANGED <<bcVars, htVars>>
            ELSE IF StartsWith(line, TelemetryPrefix) /\ telemetry_data.ok
            THEN HandleTelemetryCall(t, telemetry_data.data, "loop_idle_delay")
            ELSE /\ pc' = [pc EXCEPT ![t] = "loop_top"]
                 /\ holder' = "none"
                 /\ UNCHANGED <<bcVars, htVars>>

\* One iteration of read_loop on a connected link.
LoopIter ==
    /\ pc["loop"] = "loop_top"
    /\ CanRun("loop")
    /\ running
    /\ is_connected
    /\ ReadSection("loop")
    /\ UNCHANGED <<scVars, opVars, hubVars>>
    /\ UNCHANGED unitVars

\* The iteration that reconnected goes on to its read section.
LoopAfterConnect ==
    /\ pc["loop"] = "loop_read"
    /\ CanRun("loop")
    /\ ReadSection("loop")
    /\ UNCHANGED <<scVars, opVars, hubVars>>
    /\ UNCHANGED unitVars

\* `except Exception`: after `await asyncio.sleep(1)` the loop goes on.
LoopErrorDelay ==
    /\ pc["loop"] = "loop_error_delay"
    /\ CanRun("loop")
    /\ pc' = [pc EXCEPT !["loop"] = "loop_top"]
    /\ holder' = "none"
    /\ UNCHANGED <<linkVars, scVars, opVars, hubVars, bcVars, htVars>>
    /\ UNCHANGED unitVars

\* The callback returned: `await asyncio.sleep(0.05)`.
LoopIdleDelay ==
    /\ pc["loop"] = "loop_idle_delay"
    /\ CanRun("loop")
    /\ pc' = [pc EXCEPT !["loop"] = "loop_top"]
    /\ holder' = "none"
    /\ sample' = NoSample
    /\ ht_ret' = ""
    /\ ht_rows' = 0
    /\ ht_alerts' = <<>>
    /\ ht_alert_pub' = <<>>
    /\ ht_tel_pub' = 0
    /\ UNCHANGED latest_telemetry
    /\ UNCHANGED <<linkVars, scVars, opVars, hubVars, bcVars>>
    /\ UNCHANGED unitVars

\* ------------------------------------------------------------- environment
\* The device sends a line.
DeviceEmit(line) ==
    /\ plugged
    /\ serial_conn = "open"
    /\ Len(rx) < MaxBuf
    /\ rx' = Append(rx, line)
    /\ UNCHANGED <<serial_conn, plugged, running>>
    /\ UNCHANGED <<loopVars, scVars, opVars, hubVars, bcVars, htVars>>
    /\ UNCHANGED unitVars

\* The device detects an unsafe condition and enters emergency mode.
DeviceTrips ==
    /\ plugged
    /\ ~emergency_mode
    /\ emergency_mode' = TRUE
    /\ UNCHANGED <<command, lines_received, raw_read, written, sc_ret, response, sc_how, wrote>>
    /\ UNCHANGED <<loopVars, linkVars, opVars, hubVars, bcVars, htVars>>
    /\ UNCHANGED unitVars

\* The device is unplugged: what the buffer held is lost.
Unplug ==
    /\ plugged
    /\ plugged' = FALSE
    /\ UNCHANGED running
    /\ rx' = <<>>
    /\ UNCHANGED serial_conn
    /\ UNCHANGED <<loopVars, scVars, opVars, hubVars, bcVars, htVars>>
    /\ UNCHANGED unitVars

\* The device is plugged in again.
Plug ==
    /\ ~plugged
    /\ plugged' = TRUE
    /\ UNCHANGED <<serial_conn, rx, running>>
    /\ UNCHANGED <<loopVars, scVars, opVars, hubVars, bcVars, htVars>>
    /\ UNCHANGED unitVars

\* ------------------------------------------------------ command operations
Ops == {"OPEN", "CLOSE", "FORCE_OPEN", "RESET_EMERGENCY", "TEST_MODE_ON", "TEST_MODE_OFF"}

\* The operations that call log_operation before they report a failure.
LoggingOps == {"OPEN", "CLOSE", "FORCE_OPEN", "RESET_EMERGENCY"}

NoOutcome ==
    [kind |-> "none", status |-> 0, detail |-> "", success |-> FALSE,
     message |-> "", valve_state |-> None]

\* raise HTTPException(status_code=..., detail=...)
HttpError(code, text) == [NoOutcome EXCEPT !.kind = "http_error", !.status = code, !.detail = text]

\* return ValveCommandResponse(success=..., message=..., valve_state=...)
ValveCommandResponse(ok, text, state) ==
    [NoOutcome EXCEPT !.kind = "response", !.status = 200, !.success = ok,
                      !.message = text, !.valve_state = state]

\* An exception no handler of the operation catches.
Uncaught(text) == [NoOutcome EXCEPT !.kind = "exception", !.status = 500, !.detail = text]

\* raise HTTPException(status_code=503, detail="Arduino not connected")
NotConnectedError == HttpError(503, "Arduino not connected")

\* A command without reply is reported as a link that is not connected.
NoResponseAsNotConnected == HttpError(503, "Arduino not connected")

\* raise HTTPException(status_code=503, detail="No response from Arduino")
NoResponseError == HttpError(503, "No response from Arduino")

\* The test looks for 'emergency' as the device wrote it.
IsRejectionCaseSensitive(r) == Contains(r, "ERROR") \/ Contains(r, "emergency")

\* open_valve: `"ERROR" in response or "emergency" in response.lower()`
IsRejection(r) == Contains(r, "ERROR") \/ Contains(Lower(r), "emergency")

\* What an operation does with send_command's result: the result it logs
\* ("" when it logs nothing), the outcome it ends with, and whether an alert
\* is created after the log.
Classify(o, r) ==
    IF Falsy(r)
    THEN [log |-> IF o \in LoggingOps THEN "FAILED" ELSE "",
          out |-> NoResponseError, alert |-> FALSE]
    ELSE IF o = "OPEN"
    THEN IF Contains(r, "VALVE_OPENED")
         THEN [log |-> "SUCCESS", alert |-> FALSE,
               out |-> ValveCommandResponse(TRUE, "Valve opened successfully", "OPEN")]
         ELSE IF IsRejection(r)
         THEN [log |-> "REJECTED", alert |-> FALSE,
               out |-> ValveCommandResponse(FALSE, r, None)]
         ELSE [log |-> "UNKNOWN", alert |-> FALSE,
               out |-> ValveCommandResponse(FALSE, "Unexpected response: " \o r, None)]
    ELSE IF o = "CLOSE"
    THEN IF Contains(r, "VALVE_CLOSED") \/ Contains(r, "ALREADY_CLOSED")
         THEN [log |-> "SUCCESS", alert |-> FALSE,
               out |-> ValveCommandResponse(TRUE, "Valve closed successfully", "CLOSED")]
         ELSE [log |-> "UNKNOWN", alert |-> FALSE,
               out |-> ValveCommandResponse(FALSE, "Unexpected response: " \o r, None)]
    ELSE IF o = "FORCE_OPEN"
    THEN IF Contains(r, "VALVE_OPENED")
         THEN [log |-> "SUCCESS", alert |-> TRUE,
               out |-> ValveCommandResponse(TRUE, "Valve force-opened (bypassed safety)", "OPEN")]
         ELSE [log |-> "FAILED", alert |-> FALSE,
               out |-> ValveCommandResponse(FALSE, r, None)]
    ELSE IF o = "RESET_EMERGENCY"
    THEN IF Contains(Lower(r), "reset successfully") \/ Contains(r, "EVENT")
         THEN [log |-> "SUCCESS", alert |-> FALSE,
               out |-> ValveCommandResponse(TRUE, "Emergency mode reset successfully", None)]
         ELSE [log |-> "UNKNOWN", alert |-> FALSE,
               out |-> ValveCommandResponse(FALSE, r, None)]
    ELSE IF o = "TEST_MODE_ON"
    THEN [log |-> "SUCCESS", alert |-> FALSE,
          out |-> ValveCommandResponse(TRUE, "Test mode enabled - using mock sensor values", None)]
    ELSE [log |-> "SUCCESS", alert |-> FALSE,
          out |-> ValveCommandResponse(TRUE, "Test mode disabled - using real sensor values", None)]

\* The operation does not look at the link.
NotConnectedCheckSkipped == FALSE

\* `if not serial_manager.is_connected():` at the head of every operation.
NotConnectedCheck == ~is_connected

\* A request arrives: the operation checks the link, then either reports
\* "not connected" (after log_operation, for the operations that log it) or
\* calls send_command.
Invoke(t, o) ==
    /\ pc["main"] = "serving"
    /\ pc[t] = "idle"
    /\ CanRun(t)
    /\ op' = [op EXCEPT ![t] = o]
    /\ link_was' = [link_was EXCEPT ![t] = IF is_connected THEN "connected" ELSE "not_connected"]
    /\ IF NotConnectedCheck
       THEN /\ outcome' = [outcome EXCEPT ![t] = NotConnectedError]
            /\ UNCHANGED scVars
            /\ IF o \in LoggingOps
               THEN LogOperationCall(t, o, "FAILED", "op_finish")
               ELSE /\ pc' = [pc EXCEPT ![t] = "op_finish"]
                    /\ holder' = t
                    /\ UNCHANGED <<op_logged, bcVars>>
       ELSE /\ outcome' = [outcome EXCEPT ![t] = NoOutcome]
            /\ SendCommandCall(t, o, 0, "op_classify")
            /\ UNCHANGED <<op_logged, bcVars>>
    /\ UNCHANGED <<linkVars, hubVars, htVars>>
    /\ UNCHANGED unitVars

\* send_command returned: the response is classified and the result logged.
OpClassify(t) ==
    /\ pc[t] = "op_classify"
    /\ CanRun(t)
    /\ LET c == Classify(op[t], response[t]) IN
       /\ outcome' = [outcome EXCEPT ![t] = c.out]
       /\ IF c.log # ""
          THEN LogOperationCall(t, op[t], c.log, IF c.alert THEN "op_alert" ELSE "op_finish")
          ELSE /\ pc' = [pc EXCEPT ![t] = "op_finish"]
               /\ holder' = t
               /\ UNCHANGED <<op_logged, bcVars>>
    /\ ScClear(t)
    /\ UNCHANGED <<op, link_was, wrote, emergency_mode>>
    /\ UNCHANGED <<linkVars, hubVars, htVars>>
    /\ UNCHANGED unitVars

\* AlertService.create_alert reads `priority.value`: an AlertPriority member
\* has it, a plain str has not.
CreateAlertRaises(priority) == ~priority.is_enum

\* force_open_valve after its log: create_alert(..., priority="HIGH").
OpAlert(t) ==
    /\ pc[t] = "op_alert"
    /\ CanRun(t)
    /\ outcome' = [outcome EXCEPT ![t] =
                     IF CreateAlertRaises([is_enum |-> FALSE, value |-> "HIGH"])
                     THEN Uncaught("AttributeError") ELSE @]
    /\ pc' = [pc EXCEPT ![t] = "op_finish"]
    /\ holder' = t
    /\ UNCHANGED <<op, op_logged, link_was>>
    /\ UNCHANGED <<linkVars, scVars, hubVars, bcVars, htVars>>
    /\ UNCHANGED unitVars

\* The operation ends: its response or its error goes to the caller.
OpFinish(t) ==
    /\ pc[t] = "op_finish"
    /\ CanRun(t)
    /\ pc' = [pc EXCEPT ![t] = "idle"]
    /\ holder' = "none"
    /\ op' = [op EXCEPT ![t] = ""]
    /\ outcome' = [outcome EXCEPT ![t] = NoOutcome]
    /\ op_logged' = [op_logged EXCEPT ![t] = <<>>]
    /\ link_was' = [link_was EXCEPT ![t] = ""]
    /\ wrote' = [wrote EXCEPT ![t] = 0]
    /\ UNCHANGED emergency_mode
    /\ UNCHANGED <<command, lines_received, raw_read, written, sc_ret, response, sc_how>>
    /\ UNCHANGED <<linkVars, hubVars, bcVars, htVars>>
    /\ UNCHANGED unitVars

\* ---------------------------------------------------------- specification
InitFrames ==
    /\ command = [t \in LinkTasks |-> ""]
    /\ lines_received = [t \in LinkTasks |-> <<>>]
    /\ raw_read = [t \in LinkTasks |-> <<>>]
    /\ written = [t \in LinkTasks |-> ""]
    /\ sc_ret = [t \in LinkTasks |-> ""]
    /\ response = [t \in LinkTasks |-> None]
    /\ sc_how = [t \in LinkTasks |-> "idle"]
    /\ wrote = [t \in LinkTasks |-> 0]
    /\ emergency_mode = FALSE
    /\ op = [t \in Handlers |-> ""]
    /\ outcome = [t \in Handlers |-> NoOutcome]
    /\ op_logged = [t \in Handlers |-> <<>>]
    /\ link_was = [t \in Handlers |-> ""]
    /\ message = [t \in Publishers |-> NoMessage]
    /\ connections = [t \in Publishers |-> {}]
    /\ todo = [t \in Publishers |-> {}]
    /\ current = [t \in Publishers |-> "none"]
    /\ disconnected = [t \in Publishers |-> {}]
    /\ attempted = [t \in Publishers |-> {}]
    /\ b_ret = [t \in Publishers |-> ""]
    /\ n_pub = 0
    /\ sending = [c \in Clients |-> <<>>]
    /\ sample = NoSample
    /\ ht_ret = ""
    /\ ht_rows = 0
    /\ ht_alerts = <<>>
    /\ ht_alert_pub = <<>>
    /\ ht_tel_pub = 0
    /\ latest_telemetry = SafeSample
    /\ active_connections = {}
    /\ sock = [c \in Clients |-> "new"]
    /\ authenticated = [c \in Clients |-> FALSE]
    /\ inbox = [c \in Clients |-> <<>>]
    /\ unicast = [c \in Clients |-> NoMessage]
    /\ u_ret = [c \in Clients |-> ""]
    /\ validated = NotValidated
    /\ can_open = NotChecked
    /\ calls = <<>>
    /\ count = NotCounted
    /\ valve_state = "CLOSED"
    /\ sim_command = ""
    /\ sim_response = ""
    /\ sim_telemetry = NoSample
    /\ ws_message = [c \in Clients |-> ""]
    /\ orphaned = FALSE

\* The process starts: nothing is connected, the lifespan is about to run,
\* the device is attached or not, no client ever connects.
Init ==
    /\ InitFrames
    /\ telemetry = NoSample
    /\ pc = [t \in Tasks |->
               IF t = "main" THEN "startup"
               ELSE IF t = "loop" THEN "unborn"
               ELSE IF t \in Handlers THEN "idle"
               ELSE "absent"]
    /\ holder = "none"
    /\ serial_conn = "None"
    /\ plugged \in BOOLEAN
    /\ rx = <<>>
    /\ running = FALSE

Next ==
    \/ StartupConnect
    \/ \E t \in {"main", "loop"} : ConnectFlush(t)
    \/ \E t \in {"main", "loop"} : ConnectAfterPing(t)
    \/ \E t \in {"main", "loop"} : ConnectAfterTestMode(t)
    \/ \E t \in {"main", "loop"} : ConnectDone(t)
    \/ \E t \in LinkTasks : ScRead(t)
    \/ \E t \in LinkTasks : ScIdle(t)
    \/ \E t \in LinkTasks : ScRaise(t)
    \/ \E t \in LinkTasks : ScTimeout(t)
    \/ LoopStart
    \/ LoopReconnect
    \/ LoopIter
    \/ LoopAfterConnect
    \/ LoopErrorDelay
    \/ LoopIdleDelay
    \/ \E t \in Handlers, o \in Ops : Invoke(t, o)
    \/ \E t \in Handlers : OpClassify(t)
    \/ \E t \in Handlers : OpAlert(t)
    \/ \E t \in Handlers : OpFinish(t)
    \/ \E line \in DeviceLines : DeviceEmit(line)
    \/ DeviceTrips
    \/ Unplug
    \/ Plug

Spec == Init /\ [][Next]_vars

\* ------------------------------------------------- real-time client tasks
AuthSuccess == [NoMessage EXCEPT !.type = "auth_success"]
AuthError == [NoMessage EXCEPT !.type = "auth_error"]
Credentials == {"valid", "invalid", "absent"}

\* ConnectionManager.connect: `self.active_connections.add(websocket)`
Add(registered, c) == registered \cup {c}

\* Nothing is discarded.
DiscardNothing(registered, c) == registered

\* ConnectionManager.disconnect: `self.active_connections.discard(websocket)`
Discard(registered, c) == registered \ {c}

\* websocket_telemetry up to its first receive: ConnectionManager.connect
\* accepts the socket and registers it.
WsConnect(c) ==
    /\ pc["main"] = "serving"
    /\ pc[c] = "ws_new"
    /\ CanRun(c)
    /\ sock[c] = "new"
    /\ sock' = [sock EXCEPT ![c] = "open"]
    /\ active_connections' = Add(active_connections, c)
    /\ pc' = [pc EXCEPT ![c] = "ws_auth_wait"]
    /\ holder' = "none"
    /\ UNCHANGED <<authenticated, inbox, unicast, u_ret>>
    /\ UNCHANGED <<linkVars, scVars, opVars, bcVars, htVars>>
    /\ UNCHANGED unitVars

\* The first message arrives.  A token that decodes sets `authenticated` and
\* the confirmation is sent; a token that does not, or no token, and the
\* error is sent before the connection is unregistered.
WsAuth(c, cred) ==
    /\ pc[c] = "ws_auth_wait"
    /\ CanRun(c)
    /\ sock[c] = "open"
    /\ authenticated' = [authenticated EXCEPT ![c] = (cred = "valid")]
    /\ unicast' = [unicast EXCEPT ![c] = IF cred = "valid" THEN AuthSuccess ELSE AuthError]
    /\ u_ret' = [u_ret EXCEPT ![c] = IF cred = "valid" THEN "ws_session" ELSE "ws_done"]
    /\ sending' = [sending EXCEPT ![c] = Append(@, c)]
    /\ pc' = [pc EXCEPT ![c] = "ws_send"]
    /\ holder' = "none"
    /\ UNCHANGED <<active_connections, sock, inbox>>
    /\ UNCHANGED <<message, connections, todo, current, disconnected, attempted, b_ret, n_pub>>
    /\ UNCHANGED <<linkVars, scVars, opVars, htVars>>
    /\ UNCHANGED unitVars

\* No first message within the timeout, or the client went away: the
\* exception handlers unregister the connection.
WsAuthAbort(c) ==
    /\ pc[c] = "ws_auth_wait"
    /\ CanRun(c)
    /\ active_connections' = Discard(active_connections, c)
    /\ pc' = [pc EXCEPT ![c] = "ws_done"]
    /\ sock' = [sock EXCEPT ![c] = "closed"]
    /\ holder' = "none"
    /\ UNCHANGED <<authenticated, inbox, unicast, u_ret>>
    /\ UNCHANGED <<linkVars, scVars, opVars, bcVars, htVars>>
    /\ UNCHANGED unitVars

\* A send that raised leaves the connection registered.
AfterPersonalSendKeeps(registered, c, failed, ret) ==
    IF ret = "ws_done" THEN Discard(registered, c) ELSE registered

\* The registered set after send_personal_message and what follows it: the
\* except clause unregisters the connection of a send that raised, and the
\* endpoint unregisters a refused client before it returns.
AfterPersonalSend(registered, c, failed, ret) ==
    IF failed \/ ret = "ws_done" THEN Discard(registered, c) ELSE registered

\* send_personal_message's send ends: the client has the message, or the
\* send raised and the connection is unregistered.  After the error message
\* of a refused client the endpoint unregisters the connection and returns.
PersonalSendDone(c) ==
    /\ pc[c] = "ws_send"
    /\ CanRun(c)
    /\ sock[c] # "stalled"
    /\ Head(sending[c]) = c
    /\ sending' = Sent(c)
    /\ inbox' = [inbox EXCEPT ![c] = IF sock[c] = "open" THEN Append(@, unicast[c]) ELSE @]
    /\ active_connections' =
          AfterPersonalSend(active_connections, c, sock[c] # "open", u_ret[c])
    /\ pc' = [pc EXCEPT ![c] = u_ret[c]]
    /\ sock' = [sock EXCEPT ![c] = IF u_ret[c] = "ws_done" THEN "closed" ELSE @]
    /\ unicast' = [unicast EXCEPT ![c] = NoMessage]
    /\ u_ret' = [u_ret EXCEPT ![c] = ""]
    /\ holder' = "none"
    /\ UNCHANGED authenticated
    /\ UNCHANGED <<message, connections, todo, current, disconnected, attempted, b_ret, n_pub>>
    /\ UNCHANGED <<linkVars, scVars, opVars, htVars>>
    /\ UNCHANGED unitVars

\* The session's receive raises WebSocketDisconnect: the connection is
\* unregistered.
WsSessionEnd(c) ==
    /\ pc[c] = "ws_session"
    /\ CanRun(c)
    /\ sock[c] = "broken"
    /\ active_connections' = Discard(active_connections, c)
    /\ pc' = [pc EXCEPT ![c] = "ws_done"]
    /\ sock' = [sock EXCEPT ![c] = "closed"]
    /\ holder' = "none"
    /\ UNCHANGED <<authenticated, inbox, unicast, u_ret>>
    /\ UNCHANGED <<linkVars, scVars, opVars, bcVars, htVars>>
    /\ UNCHANGED unitVars

\* The endpoint returned: the server has closed the socket ("closed"), and a
\* send on it raises.
\* The client closes its end, or the network drops it.
ClientBreaks(c) ==
    /\ sock[c] = "open"
    /\ sock' = [sock EXCEPT ![c] = "broken"]
    /\ UNCHANGED <<active_connections, authenticated, inbox, unicast, u_ret>>
    /\ UNCHANGED <<loopVars, linkVars, scVars, opVars, bcVars, htVars>>
    /\ UNCHANGED unitVars

\* The session loop's replies.
Pong == [NoMessage EXCEPT !.type = "pong"]
Heartbeat == [NoMessage EXCEPT !.type = "heartbeat"]

\* How a wait for a message of the session loop ends on an open socket: the
\* client's ping, another JSON object, a message that is no JSON object, or
\* the 60 s timeout.
SessionMessages == {"ping", "other", "malformed", "timeout"}

\* A ping gets no answer.
SessionReplyNoPong(received) ==
    IF received = "timeout" THEN Heartbeat ELSE NoMessage

\* What the session loop sends for what its wait gave: a pong for a ping, a
\* heartbeat for the timeout, nothing for anything else.
SessionReply(received) ==
    IF received = "ping" THEN Pong
    ELSE IF received = "timeout" THEN Heartbeat
    ELSE NoMessage

\* The session loop's wait ends on an open socket.  A message that is no JSON
\* object raises in receive_json or in message.get: `except Exception`
\* unregisters the connection and the endpoint returns.
WsReceive(c, received) ==
    /\ pc[c] = "ws_session"
    /\ CanRun(c)
    /\ sock[c] = "open"
    /\ Len(inbox[c]) < MaxInbox
    /\ ws_message' = [ws_message EXCEPT ![c] = received]
    /\ holder' = "none"
    /\ IF received = "malformed"
       THEN /\ active_connections' = Discard(active_connections, c)
            /\ pc' = [pc EXCEPT ![c] = "ws_done"]
            /\ sock' = [sock EXCEPT ![c] = "closed"]
            /\ UNCHANGED <<unicast, u_ret, sending>>
       ELSE IF SessionReply(received) = NoMessage
       THEN UNCHANGED <<active_connections, pc, sock, unicast, u_ret, sending>>
       ELSE /\ unicast' = [unicast EXCEPT ![c] = SessionReply(received)]
            /\ u_ret' = [u_ret EXCEPT ![c] = "ws_session"]
            /\ sending' = [sending EXCEPT ![c] = Append(@, c)]
            /\ pc' = [pc EXCEPT ![c] = "ws_send"]
            /\ UNCHANGED <<active_connections, sock>>
    /\ UNCHANGED <<authenticated, inbox>>
    /\ UNCHANGED <<message, connections, todo, current, disconnected, attempted, b_ret, n_pub>>
    /\ UNCHANGED <<linkVars, scVars, opVars, htVars>>
    /\ UNCHANGED <<rulesVars, managerVars, simVars, handleVars>>

\* The client stops reading and keeps its end open: a send to it does not
\* end.
ClientStalls(c) ==
    /\ sock[c] = "open"
    /\ sock' = [sock EXCEPT ![c] = "stalled"]
    /\ UNCHANGED <<active_connections, authenticated, inbox, unicast, u_ret>>
    /\ UNCHANGED <<loopVars, linkVars, scVars, opVars, bcVars, htVars>>
    /\ UNCHANGED unitVars

\* -------------------------------------------------------------- publishers
\* The read loop has read and parsed a telemetry line and awaits the
\* callback (ReadSection's dispatch), for every sample the device may send.
HubTelemetry(data) ==
    /\ pc["loop"] = "loop_top"
    /\ CanRun("loop")
    /\ running
    /\ n_pub + (IF ValidateTelemetry(data) = <<>> THEN 1 ELSE 2) <= MaxPub
    /\ HandleTelemetryCall("loop", data, "loop_idle_delay")
    /\ UNCHANGED <<linkVars, scVars, opVars, hubVars>>
    /\ UNCHANGED unitVars

LoggedCommands == {"OPEN"}
LoggedResults == {"SUCCESS"}

\* A command operation has its result and awaits log_operation.
HubLogOperation(t, cmd, res) ==
    /\ pc[t] = "idle"
    /\ CanRun(t)
    /\ n_pub < MaxPub
    /\ LogOperationCall(t, cmd, res, "log_return")
    /\ UNCHANGED <<op, outcome, link_was>>
    /\ UNCHANGED <<linkVars, scVars, hubVars, htVars>>
    /\ UNCHANGED unitVars

\* log_operation returned and the operation ends.
LogReturn(t) ==
    /\ pc[t] = "log_return"
    /\ CanRun(t)
    /\ pc' = [pc EXCEPT ![t] = "idle"]
    /\ holder' = "none"
    /\ op_logged' = [op_logged EXCEPT ![t] = <<>>]
    /\ UNCHANGED <<op, outcome, link_was>>
    /\ UNCHANGED <<linkVars, scVars, hubVars, bcVars, htVars>>
    /\ UNCHANGED unitVars

\* The gateway is serving on a connected link; the clients are about to
\* connect.
InitHub ==
    /\ InitFrames
    /\ telemetry = NoSample
    /\ pc = [t \in Tasks |->
               IF t = "main" THEN "serving"
               ELSE IF t = "loop" THEN "loop_top"
               ELSE IF t \in Handlers THEN "idle"
               ELSE "ws_new"]
    /\ holder = "none"
    /\ serial_conn = "open"
    /\ plugged = TRUE
    /\ rx = <<>>
    /\ running = TRUE

\* The tasks that publish here: the read loop and one request handler.
HubPublishers == {"loop", "h1"}

NextHub ==
    \/ \E c \in Clients : WsConnect(c)
    \/ \E c \in Clients, cred \in Credentials : WsAuth(c, cred)
    \/ \E c \in Clients : WsAuthAbort(c)
    \/ \E c \in Clients : PersonalSendDone(c)
    \/ \E c \in Clients : WsSessionEnd(c)
    \/ \E c \in Clients : ClientBreaks(c)
    \/ HubTelemetry(SafeSample)
    \/ LoopIdleDelay
    \/ \E cmd \in LoggedCommands, res \in LoggedResults : HubLogOperation("h1", cmd, res)
    \/ LogReturn("h1")
    \/ \E t \in HubPublishers : SendComplete(t)
    \/ \E t \in HubPublishers : SweepFinish(t)

SpecHub == InitHub /\ [][NextHub]_vars

\* The same, with samples that breach a threshold and clients that may stop
\* reading.
NextFanout ==
    \/ NextHub
    \/ HubTelemetry(UnsafeSample)
    \/ HtTelemetry("loop")
    \/ \E c \in Clients : ClientStalls(c)

SpecFanout == InitHub /\ [][NextFanout]_vars

\* ------------------------------------------- dispatch to connected clients
\* The read loop reading the device's lines while clients connect and drop:
\* samples within limits, a sample that breaches one and a payload that is no
\* object.
DispatchLines == {SafeLine, PartialLine, StringLine}

\* The broadcasts the dispatch of a line makes: none for a line that is not
\* dispatched, one for a sample within limits, two for one with violations.
Publishes(line) ==
    LET telemetry_data == parse_telemetry(Strip(line)) IN
    IF ~(StartsWith(Strip(line), TelemetryPrefix) /\ telemetry_data.ok) THEN 0
    ELSE IF ValidateTelemetry(telemetry_data.data) = <<>> THEN 1
    ELSE 2

\* One iteration of read_loop, while the broadcasts it may make are within
\* the bound.
DispatchIter ==
    /\ rx # <<>> => n_pub + Publishes(Head(rx)) <= MaxPub
    /\ LoopIter

NextDispatch ==
    \/ DispatchIter
    \/ LoopIdleDelay
    \/ HtTelemetry("loop")
    \/ SendComplete("loop")
    \/ SweepFinish("loop")
    \/ \E line \in DispatchLines : DeviceEmit(line)
    \/ \E c \in Clients : WsConnect(c)
    \/ \E c \in Clients : ClientBreaks(c)
    \/ Unplug
    \/ LoopErrorDelay

SpecDispatch == InitHub /\ [][NextDispatch]_vars

\* ------------------------------------------------------- command responses
\* The lines a device answers a command with (serial_simulator.py
\* process_command), an answer that names the emergency in mixed case, and
\* the echo.
ClosedLine == "VALVE_CLOSED\r\n"
AlreadyClosedLine == "VALVE_ALREADY_CLOSED\r\n"
OverpressureLine == "ERROR: Overpressure\r\n"
EmergencyLine == "System in Emergency mode\r\n"
ResetLine == "EVENT: Emergency mode reset successfully.\r\n"
PongLine == "PONG\r\n"
ResponseLines ==
    {EchoLine, OpenedLine, ClosedLine, AlreadyClosedLine, OverpressureLine,
     EmergencyLine, ResetLine, PongLine}

\* The gateway is serving, its link connected or not; one request handler
\* runs the operations.
InitOps ==
    /\ InitFrames
    /\ telemetry = NoSample
    /\ pc = [t \in Tasks |->
               IF t = "main" THEN "serving"
               ELSE IF t = "loop" THEN "loop_top"
               ELSE IF t \in Handlers THEN "idle"
               ELSE "absent"]
    /\ holder = "none"
    /\ serial_conn \in {"open", "None"}
    /\ plugged = TRUE
    /\ rx = <<>>
    /\ running = TRUE

NextOps ==
    \/ \E o \in Ops : Invoke("h1", o)
    \/ ScRead("h1")
    \/ ScIdle("h1")
    \/ ScRaise("h1")
    \/ ScTimeout("h1")
    \/ OpClassify("h1")
    \/ OpAlert("h1")
    \/ OpFinish("h1")
    \/ \E line \in ResponseLines : DeviceEmit(line)
    \/ DeviceTrips
    \/ Unplug
    \/ Plug

SpecOps == InitOps /\ [][NextOps]_vars

\* ---------------------------------------------------------------- read loop
\* The lines the read loop is sent here: telemetry that is safe, that has one
\* field only, that is a JSON string, that is no JSON; a line with no
\* telemetry prefix.
LoopLines == {SafeLine, PartialLine, StringLine, InvalidLine, OpenedLine}

\* The gateway is serving on a connected link and the read loop runs; no
\* request is made and no client connects.
InitLoop ==
    /\ InitFrames
    /\ telemetry = NoSample
    /\ pc = [t \in Tasks |->
               IF t = "main" THEN "serving"
               ELSE IF t = "loop" THEN "loop_top"
               ELSE IF t \in Handlers THEN "idle"
               ELSE "absent"]
    /\ holder = "none"
    /\ serial_conn = "open"
    /\ plugged = TRUE
    /\ rx = <<>>
    /\ running = TRUE

NextLoop ==
    \/ LoopIter
    \/ LoopReconnect
    \/ ConnectFlush("loop")
    \/ ConnectAfterPing("loop")
    \/ ConnectAfterTestMode("loop")
    \/ ConnectDone("loop")
    \/ ScRead("loop")
    \/ ScIdle("loop")
    \/ ScRaise("loop")
    \/ ScTimeout("loop")
    \/ LoopAfterConnect
    \/ LoopErrorDelay
    \/ HtTelemetry("loop")
    \/ LoopIdleDelay
    \/ \E line \in LoopLines : DeviceEmit(line)
    \/ Unplug
    \/ Plug

SpecLoop == InitLoop /\ [][NextLoop]_vars

\* The clients' sessions, with the read loop publishing to them.
NextSession ==
    \/ \E c \in Clients : WsConnect(c)
    \/ \E c \in Clients, cred \in Credentials : WsAuth(c, cred)
    \/ \E c \in Clients : WsAuthAbort(c)
    \/ \E c \in Clients : PersonalSendDone(c)
    \/ \E c \in Clients, received \in SessionMessages : WsReceive(c, received)
    \/ \E c \in Clients : WsSessionEnd(c)
    \/ \E c \in Clients : ClientBreaks(c)
    \/ HubTelemetry(SafeSample)
    \/ LoopIdleDelay
    \/ SendComplete("loop")
    \/ SweepFinish("loop")

SpecSession == InitHub /\ [][NextSession]_vars

\* ----------------------------------------------------------------- shutdown
\* The lifespan's shutdown: serial_manager.stop() clears the flag and
\* disconnects, then the lifespan waits for the read_loop task.
Stop ==
    /\ pc["main"] = "serving"
    /\ CanRun("main")
    /\ running' = FALSE
    /\ serial_conn' = "None"
    /\ rx' = <<>>
    /\ pc' = [pc EXCEPT !["main"] = "stopping"]
    /\ holder' = "none"
    /\ UNCHANGED plugged
    /\ UNCHANGED <<scVars, opVars, hubVars, bcVars, htVars>>
    /\ UNCHANGED unitVars

\* The read_loop task has ended: the wait returns.
ShutdownDone ==
    /\ pc["main"] = "stopping"
    /\ CanRun("main")
    /\ pc["loop"] = "loop_done"
    /\ pc' = [pc EXCEPT !["main"] = "stopped"]
    /\ holder' = "none"
    /\ UNCHANGED <<linkVars, scVars, opVars, hubVars, bcVars, htVars>>
    /\ UNCHANGED unitVars

\* asyncio.wait_for(telemetry_task, timeout=5.0) times out: the task, which
\* has not ended, is cancelled where it is suspended.
ShutdownTimeout ==
    /\ pc["main"] = "stopping"
    /\ CanRun("main")
    /\ pc["loop"] # "loop_done"
    /\ holder # "loop"
    /\ pc' = [pc EXCEPT !["main"] = "stopped", !["loop"] = "loop_cancelled"]
    /\ holder' = "none"
    /\ UNCHANGED <<linkVars, scVars, opVars, hubVars, bcVars, htVars>>
    /\ UNCHANGED unitVars

\* The lifespan has connected and created the read_loop task, whose first
\* step has not run; one client is about to connect.
InitStop ==
    /\ InitFrames
    /\ telemetry = NoSample
    /\ pc = [t \in Tasks |->
               IF t = "main" THEN "serving"
               ELSE IF t = "loop" THEN "loop_new"
               ELSE IF t \in Handlers THEN "idle"
               ELSE "ws_new"]
    /\ holder = "none"
    /\ serial_conn = "open"
    /\ plugged = TRUE
    /\ rx = <<>>
    /\ running = FALSE

NextStop ==
    \/ LoopStart
    \/ LoopExit
    \/ LoopIter
    \/ LoopReconnect
    \/ ConnectFlush("loop")
    \/ ConnectAfterPing("loop")
    \/ ConnectAfterTestMode("loop")
    \/ ConnectDone("loop")
    \/ ScIdle("loop")
    \/ ScRaise("loop")
    \/ ScTimeout("loop")
    \/ LoopAfterConnect
    \/ LoopErrorDelay
    \/ HubTelemetry(SafeSample)
    \/ LoopIdleDelay
    \/ SendComplete("loop")
    \/ SweepFinish("loop")
    \/ WsConnect("c1")
    \/ \E cred \in Credentials : WsAuth("c1", cred)
    \/ WsAuthAbort("c1")
    \/ PersonalSendDone("c1")
    \/ WsSessionEnd("c1")
    \/ ClientBreaks("c1")
    \/ Unplug
    \/ Plug
    \/ Stop
    \/ ShutdownDone
    \/ ShutdownTimeout

SpecStop == InitStop /\ [][NextStop]_vars

\* ------------------------------------------------ opening on telemetry
\* The lines the device sends here: a safe sample, one that breaches limits
\* and has the emergency flag set, and the answer to OPEN.
GuardLines == {SafeLine, UnsafeLine, OpenedLine}

\* The read loop stores what the device reports while one request handler
\* serves open requests.
NextGuard ==
    \/ LoopIter
    \/ HtTelemetry("loop")
    \/ LoopIdleDelay
    \/ Invoke("h1", "OPEN")
    \/ ScRead("h1")
    \/ ScIdle("h1")
    \/ ScTimeout("h1")
    \/ OpClassify("h1")
    \/ OpFinish("h1")
    \/ \E line \in GuardLines : DeviceEmit(line)

SpecGuard == InitLoop /\ [][NextGuard]_vars

\* ------------------------------------------- the replies of the simulator
\* What the simulator answers to a command it does not know, and the event
\* line of its telemetry tick when a pressure is over the limit (the dash of
\* the message written as a hyphen).
UnknownLine == "ERROR: Unknown command\r\n"
TripLine == "EVENT: OVER_PRESSURE - emergency mode triggered.\r\n"
ReplyLines == {UnknownLine, TripLine, ResetLine}

\* The operations whose success does not depend on the valve.
ModeOps == {"RESET_EMERGENCY", "TEST_MODE_ON", "TEST_MODE_OFF"}

\* One request handler resets the emergency and switches the test mode on a
\* connected link.
NextReply ==
    \/ \E o \in ModeOps : Invoke("h1", o)
    \/ ScRead("h1")
    \/ ScIdle("h1")
    \/ ScTimeout("h1")
    \/ OpClassify("h1")
    \/ OpFinish("h1")
    \/ \E line \in ReplyLines : DeviceEmit(line)

SpecReply == InitLoop /\ [][NextReply]_vars

\* ------------------------------------------------- parsing what arrives
\* The lines the device sends here: records with and without a timestamp, one
\* of them with the prefix's text inside a field, and a response line.
ParseLines == {SafeLine, PartialLine, UntimedLine, TaggedLine, OpenedLine}

\* The read loop parses and hands on what the device reports.
NextParse ==
    \/ LoopIter
    \/ HtTelemetry("loop")
    \/ LoopIdleDelay
    \/ \E line \in ParseLines : DeviceEmit(line)

SpecParse == InitLoop /\ [][NextParse]_vars

\* ---------------------------------------------- the device simulator alone
\* The readings generate_telemetry can return: the pressures and the source
\* concentration with or without their spike (p2 has none), the destination
\* concentration always near 120.
SimP1 == {3, 7}
SimP2 == {3}
SimCSrc == {150, 501}
SimCDst == {120}

\* ArduinoSimulator.generate_telemetry, for the current valve state and flag.
GeneratedTelemetry ==
    {[kind |-> "dict", keys |-> TelemetryKeys, t |-> 5, valve |-> valve_state,
      p1 |-> a, p2 |-> b, c_src |-> c, c_dst |-> e,
      em |-> IF emergency_mode THEN 1 ELSE 0] :
        a \in SimP1, b \in SimP2, c \in SimCSrc, e \in SimCDst}

\* The command lines sent to the simulator.
SimCommands ==
    {"OPEN\n", "open\n", "CLOSE\n", "FORCE_OPEN\n", "RESET_EMERGENCY\n", "PING\n",
     "STATUS\n", "NOPE\n"}

\* OPEN is never refused for the emergency mode.
OpenRefusedNever(em) == FALSE

\* process_command OPEN: `if self.emergency_mode:`
OpenRefused(em) == em

\* ArduinoSimulator.process_command: the valve state and the emergency flag
\* it leaves and the response it returns; `tel` is what generate_telemetry
\* returns if it is called.  The banners of INFO and STATUS are cut to their
\* title, and the dash of the messages is written as a hyphen.
process_command(line, valve, em, tel) ==
    LET cmd == Upper(Strip(line))
        same(resp) == [valve_state |-> valve, emergency_mode |-> em, response |-> resp]
    IN  IF cmd = "PING" THEN same("PONG")
        ELSE IF cmd = "INFO" THEN same(" Smart Water Valve System - Simulator Mode")
        ELSE IF cmd = "STATUS" THEN same("=== SYSTEM STATUS ===")
        ELSE IF cmd = "OPEN"
        THEN IF OpenRefused(em)
             THEN same("ERROR: Cannot OPEN - system in EMERGENCY mode.")
             ELSE IF tel.p1 > 6 \/ tel.p2 > 6
             THEN [valve_state |-> valve, emergency_mode |-> TRUE,
                   response |-> "ERROR: Overpressure - aborting OPEN."]
             ELSE IF tel.c_src < 10
             THEN same("ERROR: Source concentration too low.")
             ELSE IF tel.c_dst > 400
             THEN same("ERROR: Destination concentration too high.")
             ELSE [valve_state |-> "OPEN", emergency_mode |-> em,
                   response |-> "VALVE_OPENED"]
        ELSE IF cmd = "CLOSE"
        THEN IF valve = "CLOSED"
             THEN same("VALVE_ALREADY_CLOSED")
             ELSE [valve_state |-> "CLOSED", emergency_mode |-> em,
                   response |-> "VALVE_CLOSED"]
        ELSE IF cmd = "FORCE_OPEN"
        THEN [valve_state |-> "OPEN", emergency_mode |-> em, response |-> "VALVE_OPENED"]
        ELSE IF cmd = "RESET_EMERGENCY"
        THEN [valve_state |-> valve, emergency_mode |-> FALSE,
              response |-> "EVENT: Emergency mode reset successfully."]
        ELSE same("ERROR: Unknown command")

\* run: a command line is read from stdin and processed.
SimCommand(line) ==
    /\ \E tel \in GeneratedTelemetry :
         LET done == process_command(line, valve_state, emergency_mode, tel) IN
         /\ valve_state' = done.valve_state
         /\ emergency_mode' = done.emergency_mode
         /\ sim_response' = done.response
         /\ sim_telemetry' =
               IF Upper(Strip(line)) = "OPEN" /\ ~OpenRefused(emergency_mode)
               THEN tel ELSE sim_telemetry
    /\ sim_command' = line
    /\ UNCHANGED <<command, lines_received, raw_read, written, sc_ret, response, sc_how, wrote>>
    /\ UNCHANGED <<rulesVars, managerVars, sessionVars, handleVars>>
    /\ UNCHANGED <<loopVars, linkVars, opVars, hubVars, bcVars, htVars>>

\* run: a second has passed; telemetry is generated and printed, and a
\* reading over its limit sets the emergency mode and closes an open valve.
SimTick ==
    /\ \E tel \in GeneratedTelemetry :
         LET trips == tel.p1 > 6 \/ tel.p2 > 6 \/ tel.c_src > 500 \/ tel.c_dst > 500 IN
         /\ sim_telemetry' = tel
         /\ emergency_mode' = (emergency_mode \/ trips)
         /\ valve_state' = IF trips /\ ~emergency_mode THEN "CLOSED" ELSE valve_state
    /\ sim_command' = ""
    /\ sim_response' = ""
    /\ UNCHANGED <<command, lines_received, raw_read, written, sc_ret, response, sc_how, wrote>>
    /\ UNCHANGED <<rulesVars, managerVars, sessionVars, handleVars>>
    /\ UNCHANGED <<loopVars, linkVars, opVars, hubVars, bcVars, htVars>>

\* ArduinoSimulator.__init__: valve closed, no emergency; nothing else runs.
InitSim ==
    /\ InitFrames
    /\ telemetry = NoSample
    /\ pc = [t \in Tasks |-> "absent"]
    /\ holder = "none"
    /\ serial_conn = "None"
    /\ plugged = FALSE
    /\ rx = <<>>
    /\ running = FALSE

NextSim ==
    \/ \E line \in SimCommands : SimCommand(line)
    \/ SimTick

SpecSim == InitSim /\ [][NextSim]_vars

\* ------------------------------------------------- the rules engine alone
\* Samples with each reading below, at and above its limits, the emergency
\* flag clear or set, and a field absent.
PressureReadings == {5, 6, 7}
SourceReadings == {9, 10, 500, 501}
DestinationReadings == {400, 401, 500, 501}
KeySets ==
    {TelemetryKeys, TelemetryKeys \ {"p1"}, TelemetryKeys \ {"c_src"},
     TelemetryKeys \ {"em"}}
RuleSamples ==
    {[kind |-> "dict", keys |-> k, t |-> 5, valve |-> "CLOSED", p1 |-> a, p2 |-> b,
      c_src |-> c, c_dst |-> e, em |-> m] :
        k \in KeySets, a \in PressureReadings, b \in PressureReadings,
        c \in SourceReadings, e \in DestinationReadings, m \in {0, 1}}

\* rules_engine.validate_telemetry(telemetry)
ValidateCall ==
    /\ ~validated.called
    /\ ~can_open.called
    /\ validated' = validate_telemetry(telemetry)
    /\ UNCHANGED <<telemetry, can_open, managerVars, simVars, sessionVars, handleVars>>
    /\ UNCHANGED <<loopVars, linkVars, scVars, opVars, hubVars, bcVars, htVars>>

\* rules_engine.can_open_valve(telemetry)
CanOpenCall ==
    /\ ~validated.called
    /\ ~can_open.called
    /\ can_open' = can_open_valve(telemetry)
    /\ UNCHANGED <<telemetry, validated, managerVars, simVars, sessionVars, handleVars>>
    /\ UNCHANGED <<loopVars, linkVars, scVars, opVars, hubVars, bcVars, htVars>>

\* The engine is about to be called on one sample; nothing else runs.
InitRules ==
    /\ InitFrames
    /\ telemetry \in RuleSamples
    /\ pc = [t \in Tasks |-> "absent"]
    /\ holder = "none"
    /\ serial_conn = "None"
    /\ plugged = FALSE
    /\ rx = <<>>
    /\ running = FALSE

NextRules ==
    \/ ValidateCall
    \/ CanOpenCall

SpecRules == InitRules /\ [][NextRules]_vars

\* ------------------------------------------ the ConnectionManager alone
\* One call made on the manager.
Call(name, c) == [name |-> name, websocket |-> c]

\* await ws_manager.connect(c): the socket is accepted and registered.
ManagerConnect(c) ==
    /\ Len(calls) < MaxCalls
    /\ calls' = Append(calls, Call("connect", c))
    /\ sock' = [sock EXCEPT ![c] = "open"]
    /\ active_connections' = Add(active_connections, c)
    /\ UNCHANGED <<authenticated, inbox, unicast, u_ret>>
    /\ UNCHANGED <<rulesVars, count, simVars, sessionVars, handleVars>>
    /\ UNCHANGED <<loopVars, linkVars, scVars, opVars, bcVars, htVars>>

\* await ws_manager.disconnect(c)
ManagerDisconnect(c) ==
    /\ Len(calls) < MaxCalls
    /\ calls' = Append(calls, Call("disconnect", c))
    /\ active_connections' = Discard(active_connections, c)
    /\ UNCHANGED <<sock, authenticated, inbox, unicast, u_ret>>
    /\ UNCHANGED <<rulesVars, count, simVars, sessionVars, handleVars>>
    /\ UNCHANGED <<loopVars, linkVars, scVars, opVars, bcVars, htVars>>

\* ws_manager.get_connection_count()
ManagerCount ==
    /\ Len(calls) < MaxCalls
    /\ calls' = Append(calls, Call("get_connection_count", "none"))
    /\ count' = [called |-> TRUE, value |-> get_connection_count]
    /\ UNCHANGED <<rulesVars, simVars, sessionVars, handleVars>>
    /\ UNCHANGED <<loopVars, linkVars, scVars, opVars, hubVars, bcVars, htVars>>

\* A manager just constructed; nothing else runs.
InitManager ==
    /\ InitFrames
    /\ telemetry = NoSample
    /\ pc = [t \in Tasks |-> "absent"]
    /\ holder = "none"
    /\ serial_conn = "None"
    /\ plugged = FALSE
    /\ rx = <<>>
    /\ running = FALSE

NextManager ==
    \/ \E c \in Clients : ManagerConnect(c)
    \/ \E c \in Clients : ManagerDisconnect(c)
    \/ ManagerCount

SpecManager == InitManager /\ [][NextManager]_vars

\* ------------------------------------------------------------------ claims
Range(s) == {s[i] : i \in DOMAIN s}
Min(S) == CHOOSE x \in S : \A y \in S : x <= y

\* The tasks whose send_command has written and not yet returned.
InFlight == {t \in LinkTasks : pc[t] = "sc_poll"}

\* C1: at most one command is in flight on the device link: over every
\* interleaving of command requests, connect handshakes and the read loop, no
\* task writes a command while another task's command still waits for its
\* response or its timeout.
C1_OneCommandInFlight == Cardinality(InFlight) <= 1

\* A handler's command waits for its response while the read loop is alive
\* and a line is in the buffer.
C1_Witness ==
    \E t \in Handlers :
        /\ pc[t] = "sc_poll"
        /\ written[t] = op[t] \o "\n"
        /\ pc["loop"] = "loop_top"
        /\ rx # <<>>

\* The lines of a call's transcript, trimmed as send_command trims them.
Trimmed(raw) == [i \in DOMAIN raw |-> Strip(raw[i])]

\* The first element of `seq` in `S`, or None.
FirstIn(seq, S) ==
    LET idx == {i \in DOMAIN seq : seq[i] \in S}
    IN  IF idx = {} THEN None ELSE seq[Min(idx)]

\* C2 as stated: send_command on a connected link writes the command name
\* followed by a newline, and a call that returns a line returns the first
\* line received that does not start with COMMAND_RECEIVED:.
C2_FirstNonEchoLine ==
    \A t \in LinkTasks :
        sc_how[t] = "line" =>
            /\ written[t] = command[t] \o "\n"
            /\ LET lines == Trimmed(raw_read[t])
               IN  response[t] = FirstIn(lines, {l \in Range(lines) : ~StartsWith(l, EchoPrefix)})

\* C2 amended: send_command on a connected link writes the command name
\* followed by a newline, and a call that returns a line returns, trimmed, the
\* first line received that is not blank and does not start with
\* COMMAND_RECEIVED:; every line before it is an echo or blank.
C2_FirstNonBlankNonEchoLine ==
    \A t \in LinkTasks :
        /\ sc_how[t] \in {"waiting", "line", "timeout"} => written[t] = command[t] \o "\n"
        /\ sc_how[t] = "line" =>
            LET lines == Trimmed(raw_read[t])
                n == Len(lines)
            IN  /\ n > 0
                /\ response[t] = lines[n]
                /\ response[t] # ""
                /\ ~StartsWith(response[t], EchoPrefix)
                /\ \A i \in 1..(n - 1) : lines[i] = "" \/ StartsWith(lines[i], EchoPrefix)
                /\ response[t] =
                      FirstIn(lines, {l \in Range(lines) : l # "" /\ ~StartsWith(l, EchoPrefix)})

\* The transcript of the claim: the echo, then VALVE_OPENED.
C2_Witness ==
    \E t \in Handlers :
        /\ sc_how[t] = "line"
        /\ command[t] = "OPEN"
        /\ written[t] = "OPEN\n"
        /\ raw_read[t] = <<EchoLine, OpenedLine>>
        /\ response[t] = "VALVE_OPENED"

\* C3: send_command returns the last echo line when only echo lines arrived
\* before the timeout; it returns None when no line arrived before the
\* timeout, when the link is not connected, and when the transport raised;
\* it always returns to its caller.
C3_EchoOrNone ==
    \A t \in LinkTasks :
        LET lines == Trimmed(raw_read[t]) IN
        /\ (/\ sc_how[t] = "timeout"
            /\ lines # <<>>
            /\ \A i \in DOMAIN lines : StartsWith(lines[i], EchoPrefix))
              => response[t] = lines[Len(lines)]
        /\ (sc_how[t] = "timeout" /\ lines = <<>>) => response[t] = None
        /\ sc_how[t] \in {"not_connected", "raised"} => response[t] = None
        /\ sc_how[t] = "not_connected" => written[t] = ""
        /\ sc_how[t] \in {"line", "timeout", "not_connected", "raised"} => pc[t] = sc_ret[t]

\* Only the echo arrived before the timeout, and the call returned it.
C3_Witness ==
    \E t \in Handlers :
        /\ sc_how[t] = "timeout"
        /\ raw_read[t] = <<EchoLine>>
        /\ response[t] = "COMMAND_RECEIVED:OPEN"
        /\ pc[t] = "op_classify"

\* C4: a command operation invoked while the link reports not connected ends
\* at once with the "not connected" error and writes nothing to the transport.
C4_NotConnectedFailsFast ==
    \A t \in Handlers :
        link_was[t] = "not_connected" =>
            /\ pc[t] = "op_finish"
            /\ outcome[t] = NotConnectedError
            /\ wrote[t] = 0
            /\ written[t] = ""
            /\ sc_how[t] = "idle"

\* An open request on a link that is not connected: logged once, refused.
C4_Witness ==
    \E t \in Handlers :
        /\ link_was[t] = "not_connected"
        /\ op[t] = "OPEN"
        /\ Len(op_logged[t]) = 1
        /\ outcome[t].status = 503
        /\ outcome[t].detail = "Arduino not connected"

\* C5: at the end of a broadcast sweep a send has been started for every
\* member of the snapshot, and every member whose send did not fail has the
\* message, whatever the number and the positions of the failures; the sweep
\* goes on to return to its caller.
C5_SweepReachesAll ==
    \A t \in Publishers :
        (pc[t] = "bc_sweep" /\ todo[t] = {}) =>
            /\ attempted[t] = connections[t]
            /\ \A c \in connections[t] \ disconnected[t] : message[t] \in Range(inbox[c])
            /\ b_ret[t] # ""

\* A sweep over two members ends: one send failed, the other member has the
\* message.
C5_Witness ==
    \E t \in Publishers :
        /\ pc[t] = "bc_sweep"
        /\ todo[t] = {}
        /\ Cardinality(connections[t]) = 2
        /\ Cardinality(disconnected[t]) = 1
        /\ \E c \in connections[t] \ disconnected[t] : message[t] \in Range(inbox[c])

\* C6: when a sweep is over, exactly the connections whose send failed are
\* removed from the registered set: the count drops by the number of them
\* still registered and every other connection stays registered.
C6_FailedRemoved ==
    [][\A t \in Publishers :
          (pc[t] = "bc_sweep" /\ pc'[t] # "bc_sweep") =>
              /\ active_connections' = active_connections \ disconnected[t]
              /\ Cardinality(active_connections') =
                    Cardinality(active_connections)
                       - Cardinality(disconnected[t] \cap active_connections)]_vars

\* A client whose confirmation was delivered and whose task has not noticed
\* that its socket broke is no longer registered: a sweep removed it.  The
\* other client is registered and has an event.
C6_Witness ==
    \E c \in Clients, d \in Clients :
        /\ c # d
        /\ pc[c] = "ws_session"
        /\ sock[c] = "broken"
        /\ AuthSuccess \in Range(inbox[c])
        /\ c \notin active_connections
        /\ active_connections = {d}
        /\ \E i \in DOMAIN inbox[d] : inbox[d][i].type \in TypedEvents

\* A client that does not read and whose task never ends.
Unending(c) == sock[c] = "stalled" /\ pc[c] \in {"ws_session", "ws_send"}

\* C7: a publish does not wait without end on one subscriber: no broadcast
\* awaits a send to a client that will never take it.
C7_PublishNeverBlocked ==
    \A t \in Publishers : ~(pc[t] = "bc_send" /\ Unending(current[t]))

\* The ids of the events of an inbox, in the order of their delivery.
TypedIds(box) == [i \in {j \in DOMAIN box : box[j].type \in TypedEvents} |-> box[i].id]

\* C8: each client receives the events in the order of their publication.
C8_DeliveryInPublishOrder ==
    \A c \in Clients :
        \A i, j \in DOMAIN TypedIds(inbox[c]) :
            i < j => TypedIds(inbox[c])[i] < TypedIds(inbox[c])[j]

\* C9: a client has no telemetry, alert or valve event before its credential
\* was accepted.
C9_NoEventBeforeAuth ==
    \A c \in Clients :
        (\E i \in DOMAIN inbox[c] : inbox[c][i].type \in TypedEvents) => authenticated[c]

\* C10: every call of handle_telemetry publishes exactly one telemetry event,
\* whatever the outcome of the storage and of the alerts.
C10_OneTelemetryEvent ==
    pc["loop"] = "loop_idle_delay" => ht_tel_pub = 1

\* C11: when the coordinator has handled a sample, it has created exactly one
\* alert record per violation the rules engine reports for it, each of
\* priority CRITICAL, and has published exactly one alert event that bundles
\* all the violations when there is at least one, whether or not a client is
\* registered; for a safe sample there is no alert record and no alert event.
C11_OneAlertPerViolation ==
    pc["loop"] = "loop_idle_delay" =>
        LET violations == ValidateTelemetry(sample) IN
        /\ Len(ht_alerts) = Len(violations)
        /\ \A i \in 1..Len(ht_alerts) :
              /\ ht_alerts[i].priority = "CRITICAL"
              /\ ht_alerts[i].alert_metadata.details = violations[i]
        /\ IF violations = <<>>
           THEN ht_alert_pub = <<>>
           ELSE /\ Len(ht_alert_pub) = 1
                /\ ht_alert_pub[1].type = "alert"
                /\ ht_alert_pub[1].violations = violations

\* C12: every command operation, whichever of the six it is and however it
\* ends (success, rejection, unrecognized response, no response, link not
\* connected), has called log_operation exactly once when it ends: one
\* operation record committed and one valve event published.
C12_OneLogPerCommand ==
    \A t \in Handlers : pc[t] = "op_finish" => Len(op_logged[t]) = 1

\* What the classification of a response to OPEN or CLOSE is to be: the
\* result logged, the success flag and the resulting valve state.
Expected(o, r) ==
    IF o = "OPEN"
    THEN IF Contains(r, "VALVE_OPENED") THEN <<"SUCCESS", TRUE, "OPEN">>
         ELSE IF Contains(r, "ERROR") \/ Contains(Lower(r), "emergency")
         THEN <<"REJECTED", FALSE, None>>
         ELSE <<"UNKNOWN", FALSE, None>>
    ELSE IF Contains(r, "VALVE_CLOSED") \/ Contains(r, "ALREADY_CLOSED")
         THEN <<"SUCCESS", TRUE, "CLOSED">>
         ELSE <<"UNKNOWN", FALSE, None>>

\* C13: when OPEN or CLOSE has a response from send_command, the step that
\* classifies it logs SUCCESS and returns the state OPEN for an OPEN response
\* containing VALVE_OPENED, else REJECTED for one containing ERROR or, in any
\* case of letters, 'emergency', else UNKNOWN; SUCCESS and CLOSED for a CLOSE
\* response containing VALVE_CLOSED or ALREADY_CLOSED, else UNKNOWN; and every
\* result other than SUCCESS returns success=false and no valve state.
C13_Classification ==
    [][\A t \in Handlers :
         (/\ pc[t] = "op_classify"
          /\ pc'[t] # "op_classify"
          /\ op[t] \in {"OPEN", "CLOSE"}
          /\ ~Falsy(response[t]))
         => LET e == Expected(op[t], response[t]) IN
            /\ Len(op_logged'[t]) = 1
            /\ op_logged'[t][1] = [operation |-> op[t], result |-> e[1]]
            /\ outcome'[t].kind = "response"
            /\ outcome'[t].success = e[2]
            /\ outcome'[t].valve_state = e[3]
            /\ (e[1] # "SUCCESS" => ~outcome'[t].success /\ outcome'[t].valve_state = None)]_vars

\* An OPEN answered in mixed case with the emergency: rejected, no state.
C13_Witness ==
    \E t \in Handlers :
        /\ pc[t] = "op_finish"
        /\ op[t] = "OPEN"
        /\ op_logged[t] = <<[operation |-> "OPEN", result |-> "REJECTED"]>>
        /\ outcome[t].message = "System in Emergency mode"
        /\ ~outcome[t].success
        /\ outcome[t].valve_state = None

\* C14: a command operation that ends hands its caller a response
\* {success, message, valve_state} or an HTTP error with status and detail,
\* never an exception nothing caught, whatever the device answered; and a
\* force-open whose logged result is SUCCESS ends with success=true and the
\* valve state OPEN.
C14_StructuredOutcome ==
    \A t \in Handlers :
        pc[t] = "op_finish" =>
            /\ outcome[t].kind \in {"response", "http_error"}
            /\ (op[t] = "FORCE_OPEN"
                 /\ op_logged[t] = <<[operation |-> "FORCE_OPEN", result |-> "SUCCESS"]>>)
                => (outcome[t].success /\ outcome[t].valve_state = "OPEN")

\* A request handler's reset-emergency operation writes its command in this
\* step.
ResetIssued ==
    \E t \in Handlers :
        /\ pc[t] = "idle"
        /\ pc'[t] = "sc_poll"
        /\ op'[t] = "RESET_EMERGENCY"
        /\ written'[t] = CmdLine("RESET_EMERGENCY")

\* C15: once the device's emergency flag is true, a step of the gateway
\* clears it only when that step is an explicitly issued reset-emergency
\* operation sending its command: telemetry arrival, the startup connect, the
\* read loop's reconnect and the other operations send no reset.
C15_OnlyResetClears ==
    [][(emergency_mode /\ ~emergency_mode') => ResetIssued]_vars

\* A task takes the first line out of the receive buffer in this step: the
\* device stays plugged and no connect is discarding the buffer.
LineTaken ==
    /\ rx # <<>>
    /\ rx' = Tail(rx)
    /\ plugged'
    /\ \A t \in {"main", "loop"} : pc[t] # "conn_flush"

\* The read loop invokes the telemetry handler with `data` in this step.
Dispatched(data) ==
    /\ pc["loop"] \in {"loop_top", "loop_read"}
    /\ pc'["loop"] \in {"loop_idle_delay", "bc_send"}
    /\ sample' = data

\* C16: every telemetry line that parses and is taken from a connected
\* link's buffer is handed to the telemetry handler by the step that takes
\* it, so that the handler runs once per line and in arrival order, also
\* while a command waits for its response.
C16_EveryTelemetryLineDispatched ==
    [][(LineTaken /\ parse_telemetry(Strip(Head(rx))).ok)
          => Dispatched(parse_telemetry(Strip(Head(rx))).data)]_vars

\* The fields a telemetry record is to carry (the timestamp may be absent).
RequiredFields == {"valve", "p1", "p2", "c_src", "c_dst", "em"}

\* A telemetry-prefixed line whose payload is no telemetry record.
Malformed(line) ==
    /\ StartsWith(line, TelemetryPrefix)
    /\ LET loaded == JsonLoads(Strip(ReplaceAll(line, TelemetryPrefix))) IN
       \/ ~loaded.ok
       \/ loaded.data.kind # "dict"
       \/ ~(RequiredFields \subseteq loaded.data.keys)

\* The read loop takes the first line of the buffer in this step.
LoopTakes ==
    /\ pc["loop"] \in {"loop_top", "loop_read"}
    /\ rx # <<>>
    /\ rx' = Tail(rx)
    /\ plugged'

\* C17: when the read loop takes a telemetry-prefixed line whose payload is
\* malformed, or a line without the prefix, the handler is not invoked and
\* nothing is stored or published for the line, the loop goes on to its next
\* iteration and the link stays connected.
C17_MalformedDropped ==
    [][(LoopTakes /\ (Malformed(Strip(Head(rx)))
                       \/ ~StartsWith(Strip(Head(rx)), TelemetryPrefix)))
          => (/\ UNCHANGED htVars
              /\ pc'["loop"] = "loop_top"
              /\ serial_conn' = serial_conn
              /\ is_connected)]_vars

\* The positions of connect once the transport has opened.
ConnectPcs == {"conn_flush", "conn_after_ping", "conn_after_tm", "conn_after_reset"}

\* connect, its transport open, returns to its caller in this step.
ConnectReturns(t) ==
    /\ pc[t] \in ConnectPcs
    /\ pc'[t] \notin ConnectPcs \cup {"sc_poll"}

\* The step leaves the link connected; the read loop, told True, goes on to
\* read.
ReportsSuccess(t) ==
    /\ serial_conn' = "open"
    /\ t = "loop" => pc'[t] = "loop_read"

\* The step leaves the link disconnected; the read loop, told False, sleeps
\* one reconnect interval.
ReportsFailure(t) ==
    /\ serial_conn' = "None"
    /\ t = "loop" => pc'[t] = "loop_top"

\* C18 as stated: once the transport has opened, connect returns success and
\* leaves the link connected, whatever PING, TEST_MODE_ON and RESET_EMERGENCY
\* were answered; it fails only when the transport cannot be opened.
C18_OpenedMeansConnected ==
    [][\A t \in {"main", "loop"} : ConnectReturns(t) => ReportsSuccess(t)]_vars

\* C18, amended: once the transport has opened, connect returns success and
\* leaves the link connected, whatever PING, TEST_MODE_ON and RESET_EMERGENCY
\* were answered, unless flushing the input buffer of the transport it just
\* opened raises, in which case it returns failure and leaves the link
\* disconnected.
C18_OpenedAndFlushedMeansConnected ==
    [][\A t \in {"main", "loop"} :
         ConnectReturns(t) =>
             \/ pc[t] = "conn_after_reset" /\ ReportsSuccess(t)
             \/ pc[t] = "conn_flush" /\ ~plugged /\ ReportsFailure(t)]_vars

\* The read loop's connect has sent its three commands, RESET_EMERGENCY got
\* no reply before its timeout, and the link is connected.
C18_Witness ==
    /\ pc["loop"] = "conn_after_reset"
    /\ sc_how["loop"] = "timeout"
    /\ response["loop"] = None
    /\ wrote["loop"] = 3
    /\ is_connected

\* stop has been requested.
StopRequested == pc["main"] \in {"stopping", "stopped"}

\* The positions of the read loop at an iteration boundary or before it, and
\* those of a loop that has ended.
LoopBoundary == {"loop_new", "loop_top"}
LoopEnded == {"loop_done", "loop_cancelled"}

\* C19: once stop has been requested the transport stays closed, so that no
\* connect is attempted, and a read loop that is at an iteration boundary, or
\* has not run its first step, only ends: it starts no read, no dispatch and
\* no connect, whenever the request came.
C19_StopEndsLoop ==
    [][StopRequested =>
          /\ serial_conn' = "None"
          /\ pc["loop"] \in LoopBoundary
                => pc'["loop"] \in LoopBoundary \cup LoopEnded]_vars

\* C20: after a transport error in the read loop the link is disconnected:
\* while the loop sleeps off the error the link does not report connected,
\* so that the loop's next iteration reconnects.
C20_ErrorDisconnects ==
    pc["loop"] = "loop_error_delay" => ~is_connected

\* A connect attempt of task t is in progress: t is inside connect, or inside
\* one of the send_command calls connect makes.
InConnect(t) ==
    \/ pc[t] \in ConnectPcs
    \/ pc[t] = "sc_poll" /\ sc_ret[t] \in ConnectPcs

\* C21: connection-state transitions are serialized: there are never two
\* connect attempts in progress at the same time, and while one is in progress
\* the task making it keeps the thread, so that no other task's step falls
\* inside it.
C21_OneConnectAtATime ==
    /\ ~(InConnect("main") /\ InConnect("loop"))
    /\ \A t \in {"main", "loop"} : InConnect(t) => holder = t

\* The startup connect has returned and the read loop is inside a reconnect
\* attempt, waiting for TEST_MODE_ON's reply on a link it reopened.
C21_Witness ==
    /\ pc["main"] = "serving"
    /\ pc["loop"] = "sc_poll"
    /\ sc_ret["loop"] = "conn_after_tm"
    /\ InConnect("loop")

\* The four checks of validate_telemetry, in order: the field read, its limit
\* and the text its violation begins with.
LimitChecks ==
    << [field |-> "p1", limit |-> max_pressure, text |-> "Pressure sensor 1 exceeds limit"],
       [field |-> "p2", limit |-> max_pressure, text |-> "Pressure sensor 2 exceeds limit"],
       [field |-> "c_src", limit |-> critical_concentration,
        text |-> "Source concentration critical"],
       [field |-> "c_dst", limit |-> critical_concentration,
        text |-> "Destination concentration critical"] >>

\* The checks a sample breaches, in order; an absent field reads 0.
Breached(d) ==
    SelectSeq(LimitChecks, LAMBDA c : Get(d, c.field, 0) > c.limit)

\* C22: validate_telemetry returns exactly one violation for each of p1 > max
\* pressure, p2 > max pressure, c_src > critical concentration, c_dst >
\* critical concentration that holds, in that order, each naming its reading
\* and its limit, and reports safe iff the list is empty; a reading equal to
\* its limit is no violation, so a sample with every reading at or below its
\* limit is safe with zero violations.
C22_OneViolationPerBreach ==
    validated.called =>
        /\ Len(validated.violations) = Len(Breached(telemetry))
        /\ \A i \in 1..Len(validated.violations) :
              validated.violations[i] =
                  << Breached(telemetry)[i].text,
                     Get(telemetry, Breached(telemetry)[i].field, 0),
                     Breached(telemetry)[i].limit >>
        /\ validated.is_safe <=> validated.violations = <<>>
        /\ (\A c \in Range(LimitChecks) : Get(telemetry, c.field, 0) <= c.limit)
              => validated.is_safe /\ validated.violations = <<>>

\* A sample with p1 and c_dst over their limits, p2 and c_src at theirs, has
\* been evaluated: two violations, p1's first.
C22_Witness ==
    /\ validated.called
    /\ telemetry.keys = TelemetryKeys
    /\ telemetry.p1 = 7 /\ telemetry.p2 = 6
    /\ telemetry.c_src = 500 /\ telemetry.c_dst = 501
    /\ Len(validated.violations) = 2
    /\ ~validated.is_safe

\* C23: can_open_valve returns not-allowed, with a reason that mentions the
\* emergency mode, for every sample whose emergency flag is set, whatever its
\* readings are.
C23_EmergencyRefuses ==
    (can_open.called /\ "em" \in telemetry.keys /\ telemetry.em = 1) =>
        /\ ~can_open.can_open
        /\ Contains(Lower(can_open.reason.text), "emergency")

\* can_open_valve has been called on a sample whose emergency flag is set
\* and whose p1 and c_dst are over their limits.
C23_Witness ==
    /\ can_open.called
    /\ telemetry.keys = TelemetryKeys
    /\ telemetry.em = 1
    /\ telemetry.p1 = 7 /\ telemetry.c_dst = 501
    /\ ~can_open.can_open

\* The four checks of can_open_valve on a sample, in order: whether the check
\* fails and the text its reason begins with.
OpenChecks(d) ==
    << [fails |-> "em" \in d.keys /\ d.em = 1, text |-> "System in emergency mode"],
       [fails |-> Breached(d) # <<>>, text |-> "Safety violations: "],
       [fails |-> Get(d, "c_src", 0) < min_src_concentration,
        text |-> "Source concentration too low"],
       [fails |-> Get(d, "c_dst", 0) > max_dst_concentration,
        text |-> "Destination concentration too high"] >>

\* The checks that fail, in order.
Failing(d) == SelectSeq(OpenChecks(d), LAMBDA c : c.fails)

\* C24: can_open_valve applies its checks in the order emergency flag,
\* validate_telemetry unsafe, c_src below the minimum source concentration,
\* c_dst above the maximum destination concentration, and returns the reason
\* of the first check that fails and of no other; it returns allowed, with
\* the reason 'All checks passed', exactly when none of the four fails.
C24_FirstFailingCheck ==
    can_open.called =>
        /\ can_open.can_open <=> Failing(telemetry) = <<>>
        /\ can_open.can_open <=> can_open.reason.text = "All checks passed"
        /\ Failing(telemetry) # <<>> =>
              /\ can_open.reason.text = Head(Failing(telemetry)).text
              /\ \A i \in 2..Len(Failing(telemetry)) :
                    can_open.reason.text # Failing(telemetry)[i].text
        /\ can_open.reason.violations # <<>> =>
              can_open.reason.text = "Safety violations: "

\* can_open_valve has been called on a sample that fails the last three
\* checks, the emergency flag clear: the reason is the violations'.
C24_Witness ==
    /\ can_open.called
    /\ telemetry.keys = TelemetryKeys
    /\ telemetry.em = 0
    /\ telemetry.c_src = 9 /\ telemetry.c_dst = 501
    /\ Len(Failing(telemetry)) = 3
    /\ can_open.reason.text = "Safety violations: "

\* The subscribers a sequence of calls leaves registered: those with a
\* connect call that no later disconnect call follows.
RegisteredBy(log) ==
    {c \in Clients :
        \E i \in 1..Len(log) :
            /\ log[i] = Call("connect", c)
            /\ \A j \in (i + 1)..Len(log) : log[j] # Call("disconnect", c)}

\* C25: after any sequence of connect and disconnect calls the subscriber set
\* is exactly the subscribers connected and not since disconnected, and
\* get_connection_count returns its size and leaves it as it was; so connecting
\* a subscriber already registered adds nothing to the count and disconnecting
\* an unknown one changes nothing.
C25_RegisteredSet ==
    [][/\ active_connections' = RegisteredBy(calls')
       /\ count' # count =>
             /\ count'.value = Cardinality(RegisteredBy(calls))
             /\ active_connections' = active_connections]_vars

\* c1 was connected twice, the unknown c2 disconnected, and the count then
\* asked for: it is 1.
C25_Witness ==
    /\ calls = << Call("connect", "c1"), Call("connect", "c1"),
                  Call("disconnect", "c2"), Call("get_connection_count", "none") >>
    /\ count = [called |-> TRUE, value |-> 1]
    /\ active_connections = {"c1"}

\* The operation of handler t wrote its command and send_command returned
\* None at the timeout: no line came that it could return.
NoReply(t) ==
    /\ pc[t] = "op_classify"
    /\ sc_how[t] = "timeout"
    /\ response[t] = None
    /\ wrote[t] > 0

\* C26: a command that was written to the link and gets no reply within the
\* timeout was written exactly once and is not written again by its
\* operation, which ends with the 'no response' failure, an outcome that
\* differs from the 'not connected' one.
C26_NoReplyNoRetry ==
    [][\A t \in Handlers :
          /\ wrote'[t] <= 1
          /\ (NoReply(t) /\ pc'[t] # pc[t]) =>
                /\ wrote[t] = 1
                /\ written[t] = CmdLine(op[t])
                /\ outcome'[t] = NoResponseError
                /\ outcome'[t].kind = "http_error"
                /\ outcome'[t] # NotConnectedError]_vars

\* OPEN was written once, no line came before the timeout, and the operation
\* is about to report it.
C26_Witness ==
    /\ NoReply("h1")
    /\ op["h1"] = "OPEN"
    /\ written["h1"] = CmdLine("OPEN")
    /\ raw_read["h1"] = <<>>
    /\ wrote["h1"] = 1

\* Handler t's operation writes OPEN to the device in this step.
SendsOpen(t) ==
    /\ written[t] = ""
    /\ written'[t] = CmdLine("OPEN")

\* C27: the open operation performs its safety checks before opening: it
\* does not send OPEN to the device when can_open_valve rejects the most
\* recent telemetry sample.
C27_NoOpenWhenRejected ==
    [][\A t \in Handlers :
          SendsOpen(t) => can_open_valve(latest_telemetry).can_open]_vars

\* The simulator processes an OPEN command in this step.
ProcessesOpen ==
    /\ sim_command' # ""
    /\ Upper(Strip(sim_command')) = "OPEN"

\* C28: while the device's emergency mode is set every OPEN command is
\* refused: the device answers with an ERROR line and its valve state is as
\* it was; the mode stays set until a RESET_EMERGENCY command clears it.
C28_EmergencyRefusesOpen ==
    [][/\ (emergency_mode /\ ProcessesOpen) =>
             /\ StartsWith(sim_response', "ERROR")
             /\ valve_state' = valve_state
       /\ (emergency_mode /\ ~emergency_mode') =>
             Upper(Strip(sim_command')) = "RESET_EMERGENCY"]_vars

\* In emergency mode with the valve open, an OPEN command written in lower
\* case has been answered with the emergency error.
C28_Witness ==
    /\ emergency_mode
    /\ valve_state = "OPEN"
    /\ sim_command = "open\n"
    /\ sim_response = "ERROR: Cannot OPEN - system in EMERGENCY mode."

\* The payload of a telemetry line: the text after its prefix.
Payload(line) == Strip(SubSeq(line, Len(TelemetryPrefix) + 1, Len(line)))

\* The record `d` with the current time for its timestamp if it has none.
Stamped(d) ==
    IF "t" \in d.keys THEN d ELSE [d EXCEPT !.keys = @ \cup {"t"}, !.t = Now]

InSweep(t) == pc[t] \in {"bc_send", "bc_sweep"}

\* The step changes the registered set as connect, disconnect or the removal
\* at the end of a sweep does: one whole critical section, entered and left
\* within the step.
UnderLock ==
    \/ \E c \in Clients :
         /\ pc[c] = "ws_new"
         /\ active_connections' = Add(active_connections, c)
    \/ \E c \in Clients :
         /\ pc[c] \in {"ws_auth_wait", "ws_send", "ws_session"}
         /\ active_connections' = Discard(active_connections, c)
    \/ \E t \in HubPublishers :
         /\ pc[t] = "bc_sweep"
         /\ active_connections' = RemoveDisconnected(active_connections, disconnected[t])

\* C30: the registered set changes only in the critical sections of connect,
\* disconnect and the removal that ends a sweep, and a sweep iterates the
\* snapshot it took: while it lasts, the members it has tried and those it has
\* still to try are the snapshot's, whatever is registered or unregistered
\* meanwhile.
C30_SweepIteratesSnapshot ==
    [][/\ (active_connections' # active_connections) => UnderLock
       /\ \A t \in HubPublishers :
            (InSweep(t) /\ InSweep(t)') =>
               /\ connections'[t] = connections[t]
               /\ attempted'[t] \cup todo'[t] = connections[t]]_vars

\* A sweep is still sending to a member of its snapshot while a client that
\* registered after the snapshot is in the registered set and a member of the
\* snapshot has been unregistered.
C30_Witness ==
    \E t \in HubPublishers :
        /\ pc[t] = "bc_send"
        /\ current[t] \in connections[t]
        /\ active_connections \ connections[t] # {}
        /\ connections[t] \ active_connections # {}

\* The read loop ends an iteration in this step: it comes back to the loop
\* head from further down, or it took a line at the head and is at the head
\* again.
IterationEnds ==
    /\ pc'["loop"] = "loop_top"
    /\ \/ pc["loop"] \notin {"loop_top", "loop_new"}
       \/ /\ pc["loop"] = "loop_top"
          /\ rx # <<>>
          /\ rx' = Tail(rx)
          /\ raw_read' = raw_read
          /\ plugged'

\* C31: every iteration of the read loop passes through a wait before the
\* next one starts, whatever line it read: the step that brings the loop back
\* to its head leaves the thread to the other tasks.
C31_EveryIterationYields ==
    [][IterationEnds => holder' = "none"]_vars

\* A telemetry line whose payload is a record without one of the required
\* fields.
LacksField(line) ==
    /\ StartsWith(line, TelemetryPrefix)
    /\ JsonLoads(Payload(line)).ok
    /\ JsonLoads(Payload(line)).data.kind = "dict"
    /\ ~(RequiredFields \subseteq JsonLoads(Payload(line)).data.keys)

\* C32: a telemetry line whose payload is well-formed and lacks a required
\* field is a parse failure: the step that takes it produces no sample, does
\* not invoke the handler, stores no row, creates no alert and publishes
\* nothing.
C32_MissingFieldIsParseFailure ==
    [][(LoopTakes /\ LacksField(Strip(Head(rx)))) =>
          /\ sample' = sample
          /\ ht_rows' = ht_rows
          /\ ht_alerts' = ht_alerts
          /\ n_pub' = n_pub
          /\ pc'["loop"] = "loop_top"]_vars

\* C33: a client whose task has ended, for whatever reason, is not in the
\* registered set; a unicast send that failed leaves its connection
\* unregistered and returns to its caller, which goes on where it would after
\* a send that succeeded.
C33_EndedOrFailedUnregistered ==
    [][\A c \in Clients :
          /\ pc'[c] = "ws_done" => c \notin active_connections'
          /\ (pc[c] = "ws_send" /\ pc'[c] # "ws_send") =>
                /\ pc'[c] = u_ret[c]
                /\ sock[c] # "open" => c \notin active_connections']_vars

\* One client's confirmation could not be sent: its task is in the session
\* loop and the client is unregistered.  The other's task ended on a message
\* that is no JSON object.
C33_Witness ==
    \E c \in Clients, d \in Clients :
        /\ pc[c] = "ws_session"
        /\ authenticated[c]
        /\ AuthSuccess \notin Range(inbox[c])
        /\ c \notin active_connections
        /\ pc[d] = "ws_done"
        /\ ws_message[d] = "malformed"

\* The wait of client c's session loop ends in this step with a message or
\* with the timeout.
WaitEnds(c) ==
    /\ pc[c] = "ws_session"
    /\ pc'[c] = "ws_send" \/ ws_message'[c] # ws_message[c]

\* Client c's task starts one send of `m` and will wait again after it.
SendsOne(c, m) ==
    /\ pc'[c] = "ws_send"
    /\ unicast'[c] = m
    /\ u_ret'[c] = "ws_session"
    /\ sending'[c] = Append(sending[c], c)

\* C34: an accepted client's task waits for a message with a timeout: when
\* the wait ends with the timeout it sends one heartbeat, when it ends with a
\* ping it sends one pong, for another message it sends nothing, and in each
\* case it waits again and the client stays registered, also once the reply
\* is delivered.
C34_HeartbeatAndPong ==
    [][\A c \in Clients :
          /\ WaitEnds(c) =>
                /\ ws_message'[c] = "timeout" => SendsOne(c, Heartbeat)
                /\ ws_message'[c] = "ping" => SendsOne(c, Pong)
                /\ ws_message'[c] = "other" =>
                      (pc'[c] = "ws_session" /\ sending' = sending)
                /\ ws_message'[c] # "malformed" =>
                      active_connections' = active_connections
          /\ (/\ pc[c] = "ws_send"
              /\ pc'[c] # "ws_send"
              /\ u_ret[c] = "ws_session"
              /\ sock[c] = "open") =>
                /\ pc'[c] = "ws_session"
                /\ inbox'[c] = Append(inbox[c], unicast[c])
                /\ active_connections' = active_connections]_vars

\* One registered client has the pong for its ping, the other the heartbeat
\* of an idle minute; both tasks wait again.
C34_Witness ==
    \E c \in Clients, d \in Clients :
        /\ pc[c] = "ws_session"
        /\ pc[d] = "ws_session"
        /\ ws_message[c] = "ping"
        /\ Pong \in Range(inbox[c])
        /\ ws_message[d] = "timeout"
        /\ Heartbeat \in Range(inbox[d])
        /\ {c, d} \subseteq active_connections

\* The lines the device can produce in reply to the command `cmd`, whatever
\* its valve state, its emergency flag and its readings.
Replies(cmd) ==
    {process_command(CmdLine(cmd), v, em,
                     [p1 |-> a, p2 |-> b, c_src |-> c, c_dst |-> e]).response :
        v \in {"OPEN", "CLOSED"}, em \in BOOLEAN,
        a \in SimP1, b \in SimP2, c \in SimCSrc, e \in SimCDst}

\* C35: the line send_command returns for a command is a line the device
\* produced in reply to that command, not a line that was in the buffer or
\* arrived for another reason while the command waited.
C35_ResponseIsReply ==
    \A t \in LinkTasks :
        sc_how[t] = "line" => response[t] \in Replies(command[t])

\* The reply `r` carries the success marker of the operation `o`: the valve's
\* new state for the valve commands, the confirmation of the reset for
\* RESET_EMERGENCY and, for the test mode, at least neither an error nor an
\* event line.
CarriesMarker(o, r) ==
    IF o \in {"OPEN", "FORCE_OPEN"} THEN Contains(r, "VALVE_OPENED")
    ELSE IF o = "CLOSE" THEN Contains(r, "VALVE_CLOSED") \/ Contains(r, "ALREADY_CLOSED")
    ELSE IF o = "RESET_EMERGENCY" THEN Contains(Lower(r), "reset successfully")
    ELSE ~Contains(r, "ERROR") /\ ~Contains(r, "EVENT")

\* C36: the step that classifies a reply reports success only when the reply
\* carries the success marker of the operation's own command.
C36_SuccessNeedsOwnMarker ==
    [][\A t \in Handlers :
          (/\ pc[t] = "op_classify"
           /\ pc'[t] # "op_classify"
           /\ outcome'[t].kind = "response"
           /\ outcome'[t].success)
          => (~Falsy(response[t]) /\ CarriesMarker(op[t], response[t]))]_vars

\* The sweep of task t starts a send to client c in this step.
StartsSend(t, c) ==
    /\ pc'[t] = "bc_send"
    /\ current'[t] = c
    /\ pc[t] # "bc_send" \/ current[t] # c

\* Client c's task has unregistered its connection and ended.
Unregistered(c) == pc[c] = "ws_done" /\ c \notin active_connections

\* C37: once a connection has been unregistered no sweep starts a send to it,
\* not even a sweep whose snapshot holds it.
C37_NoSendAfterUnregister ==
    [][\A t \in HubPublishers, c \in Clients :
          StartsSend(t, c) => ~Unregistered(c)]_vars


\* C38: the link holds at most one open transport and never loses track of an
\* open one: connect opens none while one is open, and a transport that was
\* opened is closed before serial_conn is cleared, so that no open transport
\* is left without a handle to it.
C38_NoOpenTransportUntracked == ~orphaned


\* The simulator processes a FORCE_OPEN command in this step.
ForcesOpen == Upper(Strip(sim_command')) = "FORCE_OPEN"

\* C39: in the simulated device the valve is never OPEN while the emergency
\* mode is set unless a FORCE_OPEN opened it after the mode was set: a step
\* that sets the emergency mode leaves the valve CLOSED, and the valve comes
\* to be OPEN under the emergency mode only by a FORCE_OPEN processed while
\* the mode is set.
C39_EmergencyClosesValve ==
    [][/\ (~emergency_mode /\ emergency_mode') => valve_state' = "CLOSED"
       /\ (/\ emergency_mode' /\ valve_state' = "OPEN"
           /\ ~(emergency_mode /\ valve_state = "OPEN"))
             => emergency_mode /\ ForcesOpen]_vars


\* The positions of the read loop inside handle_telemetry and at the sleep
\* that follows its return.
HandlerPositions == {"bc_send", "bc_sweep", "ht_telemetry", "loop_idle_delay"}

\* The read loop dispatches the line it takes, and the record is not stored
\* or an alert of the sample is not created: the handler failed before its
\* first broadcast.
FailsAtCall ==
    /\ LoopTakes
    /\ sample' # sample
    /\ \/ ht_rows' = 0
       \/ Len(ht_alerts') < Len(ValidateTelemetry(sample'))

\* A send of the handler's broadcast raises.
SendRaises ==
    /\ pc["loop"] = "bc_send"
    /\ disconnected'["loop"] # disconnected["loop"]

\* The link is as it was and the read loop's flag is set.
LinkKept == serial_conn' = serial_conn /\ running'

\* C40: no failure while one sample is handled ends the read loop or
\* disconnects the link.  A failure to store the record, to read the sample
\* or to create an alert leaves the loop at the sleep that follows the
\* handler's return, as a call without failure does; a send that raises
\* leaves it in the sweep; and from the handler the loop only goes on to the
\* top of its next iteration, the link kept.
C40_HandlerContainsFailure ==
    [][/\ FailsAtCall => pc'["loop"] = "loop_idle_delay" /\ LinkKept
       /\ SendRaises => pc'["loop"] \in {"bc_send", "bc_sweep"} /\ LinkKept
       /\ (pc["loop"] \in HandlerPositions /\ pc'["loop"] # pc["loop"])
             => pc'["loop"] \in HandlerPositions \cup {"loop_top"} /\ LinkKept]_vars

\* The record of a sample within limits could not be stored while a client
\* is registered; the loop is at the sleep after the handler's return, the
\* link connected, and the next line waits in the buffer.
C40_Witness ==
    /\ pc["loop"] = "loop_idle_delay"
    /\ sample = SafeSample
    /\ ht_rows = 0
    /\ active_connections # {}
    /\ is_connected /\ running
    /\ rx # <<>>

=============================================================================
